---- MODULE Spec2Model ----
(***************************************************************************)
(* Model of the statistics aggregation of MLBAggregator                    *)
(* (src/stats_calculator.py), with the values its arithmetic works on:     *)
(* Python ints, and Python floats as IEEE-754 binary64 numbers.            *)
(***************************************************************************)
EXTENDS Integers, Sequences, FiniteSets, TLC

(***************************************************************************)
(* Natural numbers of arbitrary size: little-endian sequences of limbs in  *)
(* base 2^15, without leading zero limbs (zero is the empty sequence).     *)
(* They carry the 53-bit significands of binary64 values.                  *)
(***************************************************************************)
BASE == 2^15

RECURSIVE BNorm(_)
BNorm(a) ==
    IF a = <<>> THEN <<>>
    ELSE IF a[Len(a)] = 0 THEN BNorm(SubSeq(a, 1, Len(a) - 1))
    ELSE a

RECURSIVE BFromInt(_)
BFromInt(n) ==
    IF n = 0 THEN <<>> ELSE <<n % BASE>> \o BFromInt(n \div BASE)

RECURSIVE BToInt(_)
BToInt(a) ==
    IF a = <<>> THEN 0 ELSE a[1] + BASE * BToInt(Tail(a))

BLimb(a, k) == IF k <= Len(a) THEN a[k] ELSE 0

RECURSIVE BAddC(_, _, _, _)
BAddC(a, b, k, carry) ==
    IF k > Len(a) /\ k > Len(b)
    THEN IF carry = 0 THEN <<>> ELSE <<carry>>
    ELSE LET s == BLimb(a, k) + BLimb(b, k) + carry
         IN  <<s % BASE>> \o BAddC(a, b, k + 1, s \div BASE)

BAdd(a, b) == BAddC(a, b, 1, 0)

RECURSIVE BSubC(_, _, _, _)
BSubC(a, b, k, borrow) ==
    IF k > Len(a) THEN <<>>
    ELSE LET d == BLimb(a, k) - BLimb(b, k) - borrow
         IN  IF d < 0 THEN <<d + BASE>> \o BSubC(a, b, k + 1, 1)
             ELSE <<d>> \o BSubC(a, b, k + 1, 0)

\* a - b, for a >= b
BSub(a, b) == BNorm(BSubC(a, b, 1, 0))

RECURSIVE BGeqAt(_, _, _)
BGeqAt(a, b, k) ==
    IF k = 0 THEN TRUE
    ELSE IF a[k] /= b[k] THEN a[k] > b[k]
    ELSE BGeqAt(a, b, k - 1)

BGeq(a, b) ==
    IF Len(a) /= Len(b) THEN Len(a) > Len(b) ELSE BGeqAt(a, b, Len(a))

RECURSIVE BMulC(_, _, _, _)
BMulC(a, n, k, carry) ==
    IF k > Len(a) THEN BFromInt(carry)
    ELSE LET s == a[k] * n + carry
         IN  <<s % BASE>> \o BMulC(a, n, k + 1, s \div BASE)

\* a * n, for 0 <= n < BASE
BMulSmall(a, n) == BNorm(BMulC(a, n, 1, 0))

RECURSIVE BShl(_, _)
BShl(a, k) ==
    IF k = 0 THEN a
    ELSE IF k >= 15 THEN BShl(IF a = <<>> THEN a ELSE <<0>> \o a, k - 15)
    ELSE BShl(BAdd(a, a), k - 1)

RECURSIVE BHalfAt(_, _, _)
BHalfAt(a, k, high) ==
    IF k = 0 THEN <<>>
    ELSE LET v == high * BASE + a[k]
         IN  BHalfAt(a, k - 1, v % 2) \o <<v \div 2>>

\* floor(a / 2)
BShr1(a) == BNorm(BHalfAt(a, Len(a), 0))

BOdd(a) == a /= <<>> /\ a[1] % 2 = 1

RECURSIVE IntBitLen(_)
IntBitLen(n) == IF n = 0 THEN 0 ELSE 1 + IntBitLen(n \div 2)

BBitLen(a) ==
    IF a = <<>> THEN 0 ELSE 15 * (Len(a) - 1) + IntBitLen(a[Len(a)])

(***************************************************************************)
(* Python floats: the non-negative finite binary64 numbers, [m, e] being   *)
(* m * 2^e with m = 0 (and e = 0) or 2^52 <= m < 2^53.  Every operation    *)
(* rounds its exact result to nearest, ties to even, as the hardware does. *)
(* An intermediate result is named by binding it in a singleton set,       *)
(* CHOOSE z \in {F(r) : r \in {e}} : TRUE being F(e) with e evaluated once. *)
(***************************************************************************)
PREC == 53

FZero == [m |-> <<>>, e |-> 0]

\* m is shifted right by d bits; g is the last bit shifted out, s tells
\* whether any bit shifted out before it was set
RECURSIVE ShiftRound(_, _, _, _)
ShiftRound(m, d, g, s) ==
    IF d = 0
    THEN IF g /\ (s \/ BOdd(m)) THEN BAdd(m, <<1>>) ELSE m
    ELSE IF m = <<>> THEN <<>>
    ELSE IF d >= 15
         THEN IF s \/ g \/ m[1] % (BASE \div 2) /= 0
              THEN ShiftRound(Tail(m), d - 15, m[1] >= BASE \div 2, TRUE)
              ELSE ShiftRound(Tail(m), d - 15, m[1] >= BASE \div 2, FALSE)
    ELSE IF s \/ g
         THEN ShiftRound(BShr1(m), d - 1, m[1] % 2 = 1, TRUE)
         ELSE ShiftRound(BShr1(m), d - 1, m[1] % 2 = 1, FALSE)

\* the float nearest to (m + f) * 2^e, where 0 <= f < 1 and sticky = (f > 0)
FRound(m, e, sticky) ==
    LET len == BBitLen(m) IN
    IF len = 0 THEN FZero
    ELSE IF len <= PREC THEN [m |-> BShl(m, PREC - len), e |-> e - (PREC - len)]
    ELSE CHOOSE z \in
            {IF BBitLen(r) > PREC
             THEN [m |-> BShr1(r), e |-> e + (len - PREC) + 1]
             ELSE [m |-> r, e |-> e + (len - PREC)] :
                r \in {ShiftRound(m, len - PREC, FALSE, sticky)}} : TRUE

FFromInt(n) == FRound(BFromInt(n), 0, FALSE)

\* x + y
FAdd(x, y) ==
    IF x.m = <<>> THEN y
    ELSE IF y.m = <<>> THEN x
    ELSE CHOOSE z \in
            {FRound(BAdd(BShl(p[1].m, p[1].e - p[2].e), p[2].m), p[2].e,
                    FALSE) :
                p \in {IF x.e >= y.e THEN <<x, y>> ELSE <<y, x>>}} : TRUE

\* the quotient bits of r / d below the binary point, k of them
RECURSIVE DivBits(_, _, _, _)
DivBits(q, r, d, k) ==
    IF k = 0 THEN [q |-> q, r |-> r]
    ELSE LET r2 == BAdd(r, r)
             q2 == BAdd(q, q)
         IN  IF Len(q2) >= 0 /\ BGeq(r2, d)
             THEN DivBits(BAdd(q2, <<1>>), BSub(r2, d), d, k - 1)
             ELSE DivBits(q2, r2, d, k - 1)

\* x / y, for y > 0
FDiv(x, y) ==
    IF x.m = <<>> THEN FZero
    ELSE CHOOSE z \in
            {FRound(qr.q, x.e - y.e - (PREC + 2), qr.r /= <<>>) :
                qr \in {IF BGeq(x.m, y.m)
                        THEN DivBits(<<1>>, BSub(x.m, y.m), y.m, PREC + 2)
                        ELSE DivBits(<<>>, x.m, y.m, PREC + 2)}} : TRUE

\* the next k limbs of the quotient of r / d, for 0 <= r < d < BASE
RECURSIVE DivLimbs(_, _, _, _)
DivLimbs(q, r, d, k) ==
    IF k = 0 THEN [q |-> q, r |-> r]
    ELSE DivLimbs(<<(r * BASE) \div d>> \o q, (r * BASE) % d, d, k - 1)

\* a / b of two ints, 0 <= a and 0 < b < BASE: the float nearest to the
\* quotient
IntTrueDiv(a, b) ==
    CHOOSE z \in
        {FRound(BNorm(qr.q), -75, qr.r /= 0) :
            qr \in {DivLimbs(BFromInt(a \div b), a % b, b, 5)}} : TRUE

FPos(x) == x.m /= <<>>

RECURSIVE Pow10(_)
Pow10(n) == IF n = 0 THEN 1 ELSE 10 * Pow10(n - 1)

\* the integer nearest to x * 10^ndigits, ties to even (x < 2^53)
FScaled(x, ndigits) ==
    CHOOSE n \in
        {IF x.e >= 0 THEN BToInt(BShl(m, x.e))
         ELSE IF -x.e > BBitLen(m) + 1 THEN 0
         ELSE BToInt(ShiftRound(m, -x.e, FALSE, FALSE)) :
            m \in {BMulSmall(x.m, Pow10(ndigits))}} : TRUE

\* round(x, ndigits) of Python: the float nearest to the decimal with
\* ndigits places that is nearest to the exact value of x
PyRound(x, ndigits) == IntTrueDiv(FScaled(x, ndigits), Pow10(ndigits))


(***************************************************************************)
(* Python values found in the numeric fields of a box-score line: ints,    *)
(* floats, strings (sequences of characters) and None.  Player ids, names  *)
(* and team names are strings of TLA+.  A dict is a record whose domain is *)
(* the set of keys present.                                                *)
(***************************************************************************)
None == [t |-> "NoneType"]
PyInt(n) == [t |-> "int", v |-> n]
PyFloat(x) == [t |-> "float", v |-> x]
PyStr(cs) == [t |-> "str", v |-> cs]

\* d.get(k, default)
Get(d, k, default) == IF k \in DOMAIN d THEN d[k] ELSE default

Digits == <<"0", "1", "2", "3", "4", "5", "6", "7", "8", "9">>

IsDigit(c) == \E k \in 1..Len(Digits) : Digits[k] = c

DigitValue(c) == (CHOOSE k \in 1..Len(Digits) : Digits[k] = c) - 1

RECURSIVE DecimalValue(_, _)
DecimalValue(cs, acc) ==
    IF cs = <<>> THEN acc
    ELSE DecimalValue(Tail(cs), 10 * acc + DigitValue(Head(cs)))

IsDecimal(cs) == cs /= <<>> /\ \A k \in 1..Len(cs) : IsDigit(cs[k])

RECURSIVE BShr(_, _)
BShr(a, k) ==
    IF k = 0 \/ a = <<>> THEN a
    ELSE IF k >= 15 THEN BShr(Tail(a), k - 15)
    ELSE BShr(BShr1(a), k - 1)

\* floor(x), for x < 2^31
FTrunc(x) ==
    IF x.e >= 0 THEN BToInt(BShl(x.m, x.e)) ELSE BToInt(BShr(x.m, -x.e))

Raised == [ok |-> FALSE]
Returned(v) == [ok |-> TRUE, v |-> v]

\* int(value): raises ValueError on a string that is no number and
\* TypeError on None
IntOf(value) ==
    CASE value.t = "int" -> Returned(value.v)
      [] value.t = "float" -> Returned(FTrunc(value.v))
      [] value.t = "str" ->
            IF IsDecimal(value.v) THEN Returned(DecimalValue(value.v, 0))
            ELSE Raised
      [] OTHER -> Raised

\* float(value): raises like int(value)
FloatOf(value) ==
    CASE value.t = "int" -> Returned(FFromInt(value.v))
      [] value.t = "float" -> Returned(value.v)
      [] value.t = "str" ->
            IF IsDecimal(value.v)
            THEN Returned(FFromInt(DecimalValue(value.v, 0)))
            ELSE Raised
      [] OTHER -> Raised

(***************************************************************************)
(* MLBApiClient: parse_innings, the function that reads the innings a      *)
(* box score reports for a pitcher.  Its argument is the value found under *)
(* 'ip': a string, None, or the int 0 used when the field is absent.       *)
(***************************************************************************)
RECURSIVE IntToChars(_)
IntToChars(n) ==
    IF n < 10 THEN <<Digits[n + 1]>>
    ELSE IntToChars(n \div 10) \o <<Digits[(n % 10) + 1]>>

\* not value
Falsy(value) ==
    CASE value.t = "NoneType" -> TRUE
      [] value.t = "str" -> value.v = <<>>
      [] value.t = "int" -> value.v = 0
      [] value.t = "float" -> ~FPos(value.v)

\* str(value), for a string or a non-negative int
Str(value) ==
    CASE value.t = "str" -> value.v
      [] value.t = "int" -> IntToChars(value.v)

Dots(cs) == {k \in 1..Len(cs) : cs[k] = "."}

\* as FractionValue, the fraction read as tenths
FractionValueInTenths(fraction) ==
    IF IsDecimal(fraction)
    THEN PyFloat(IntTrueDiv(DecimalValue(fraction, 0), 10))
    ELSE PyInt(0)

\* as FractionValue, a fraction other than "1" and "2" counted as no out
FractionValueOutsOnly(fraction) ==
    IF fraction = <<"1">> THEN PyFloat(IntTrueDiv(1, 3))
    ELSE IF fraction = <<"2">> THEN PyFloat(IntTrueDiv(2, 3))
    ELSE PyInt(0)

\* fraction_decimal: 1/3, 2/3, int(fraction) / 3, or the int 0
FractionValue(fraction) ==
    IF fraction = <<"1">> THEN PyFloat(IntTrueDiv(1, 3))
    ELSE IF fraction = <<"2">> THEN PyFloat(IntTrueDiv(2, 3))
    ELSE IF IsDecimal(fraction)
         THEN PyFloat(IntTrueDiv(DecimalValue(fraction, 0), 3))
         ELSE PyInt(0)

\* whole_innings + fraction_decimal, an int when both are ints
WholePlusFraction(whole_innings, fraction) ==
    CHOOSE out \in
        {IF f.t = "float"
         THEN PyFloat(FAdd(FFromInt(whole_innings), f.v))
         ELSE PyInt(whole_innings + f.v) :
            f \in {FractionValue(fraction)}} : TRUE

\* the branch of a string with one '.'; int(whole) raising gives 0.0
ParseThirds(whole, fraction) ==
    CHOOSE out \in
        {IF w.ok THEN WholePlusFraction(w.v, fraction) ELSE PyFloat(FZero) :
            w \in {IF whole = <<>> THEN Returned(0)
                   ELSE IntOf(PyStr(whole))}} : TRUE

\* the branch of a string without '.': float(innings_str), 0.0 if it raises
ParseFloat(cs) ==
    CHOOSE out \in
        {IF r.ok THEN PyFloat(r.v) ELSE PyFloat(FZero) :
            r \in {FloatOf(PyStr(cs))}} : TRUE

\* parse_innings(innings_str); unpacking a split of more than two parts
\* raises ValueError, which gives 0.0
ParseInnings(innings_str) ==
    IF Falsy(innings_str) THEN PyFloat(FZero)
    ELSE CHOOSE out \in
            {IF Dots(cs) = {} THEN ParseFloat(cs)
             ELSE IF Cardinality(Dots(cs)) /= 1 THEN PyFloat(FZero)
             ELSE ParseThirds(
                      SubSeq(cs, 1, (CHOOSE k \in Dots(cs) : TRUE) - 1),
                      SubSeq(cs, (CHOOSE k \in Dots(cs) : TRUE) + 1,
                             Len(cs))) :
                cs \in {Str(innings_str)}} : TRUE

(***************************************************************************)
(* MLBApiClient: _extract_pitching_stats, restricted to the fields of the  *)
(* line that the decision annotation ('namefield') and 'ip' determine.     *)
(***************************************************************************)
\* sub in cs
Contains(cs, sub) ==
    \E k \in 0..(Len(cs) - Len(sub)) : SubSeq(cs, k + 1, k + Len(sub)) = sub

WinMarker == <<"(", "W", ",">>
LossMarker == <<"(", "L", ",">>
SaveMarker == <<"(", "S", ",">>

\* as Decision, each marker tested on its own
DecisionOfEveryMarker(namefield) ==
    [wins |-> IF Contains(namefield, WinMarker) THEN 1 ELSE 0,
     losses |-> IF Contains(namefield, LossMarker) THEN 1 ELSE 0,
     saves |-> IF Contains(namefield, SaveMarker) THEN 1 ELSE 0]

\* wins, losses, saves: the first marker found, in the order W, L, S
Decision(namefield) ==
    IF Contains(namefield, WinMarker)
    THEN [wins |-> 1, losses |-> 0, saves |-> 0]
    ELSE IF Contains(namefield, LossMarker)
    THEN [wins |-> 0, losses |-> 1, saves |-> 0]
    ELSE IF Contains(namefield, SaveMarker)
    THEN [wins |-> 0, losses |-> 0, saves |-> 1]
    ELSE [wins |-> 0, losses |-> 0, saves |-> 0]

\* the line returned, or None when the 'in' test raises on a namefield
\* that is no string (caught by the function's except clause)
ExtractPitchingStats(stats) ==
    CHOOSE out \in
        {IF namefield.t /= "str" THEN None
         ELSE [wins |-> Decision(namefield.v).wins,
               losses |-> Decision(namefield.v).losses,
               saves |-> Decision(namefield.v).saves,
               innings_pitched |-> ParseInnings(Get(stats, "ip", PyInt(0)))] :
            namefield \in {Get(stats, "namefield", PyStr(<<>>))}} : TRUE

(***************************************************************************)
(* StatsCalculator.  An accumulator (a defaultdict) is the sequence of its *)
(* entries [key, stats] in insertion order.                                *)
(***************************************************************************)
NewBattingStats ==
    [player_name |-> "", team |-> "", games |-> 0, at_bats |-> 0,
     hits |-> 0, runs |-> 0, rbis |-> 0, doubles |-> 0, triples |-> 0,
     home_runs |-> 0, walks |-> 0, strikeouts |-> 0,
     batting_average |-> FZero, on_base_percentage |-> FZero,
     slugging_percentage |-> FZero, ops |-> FZero]

NewPitchingStats ==
    [player_name |-> "", team |-> "", games |-> 0, wins |-> 0,
     losses |-> 0, saves |-> 0, innings_pitched |-> FZero,
     hits_allowed |-> 0, runs_allowed |-> 0, earned_runs |-> 0,
     walks_allowed |-> 0, strikeouts |-> 0, home_runs_allowed |-> 0,
     era |-> FZero, whip |-> FZero]

\* the fields a line adds to, in the order of the statements adding them
BattingFields ==
    <<"at_bats", "hits", "runs", "rbis", "doubles", "triples", "home_runs",
      "walks", "strikeouts">>

PitchingFields ==
    <<"wins", "losses", "saves", "innings_pitched", "hits_allowed",
      "runs_allowed", "earned_runs", "walks_allowed", "strikeouts",
      "home_runs_allowed">>

FloatFields == {"innings_pitched"}

\* player.get('player_id', f"unknown_{player.get('name', 'unnamed')}")
PlayerKey(player) ==
    Get(player, "player_id", "unknown_" \o Get(player, "name", "unnamed"))

HasKey(acc, key) == \E k \in 1..Len(acc) : acc[k].key = key

KeyIndex(acc, key) == CHOOSE k \in 1..Len(acc) : acc[k].key = key

\* as Touch, a record added for every line
TouchAlwaysNew(acc, key, new) == Append(acc, [key |-> key, stats |-> new])

\* as Touch, a new record put in front
TouchInFront(acc, key, new) ==
    IF HasKey(acc, key) THEN acc ELSE <<[key |-> key, stats |-> new]>> \o acc

\* acc[key] of a defaultdict: a missing key is inserted with a new record
Touch(acc, key, new) ==
    IF HasKey(acc, key) THEN acc ELSE Append(acc, [key |-> key, stats |-> new])

\* float(value) for the innings, int(value) for every other field
Coerce(field, value) ==
    IF field \in FloatFields THEN FloatOf(value) ELSE IntOf(value)

\* as AddFields, with = where the code has +=
RECURSIVE AddFieldsAssigning(_, _, _, _)
AddFieldsAssigning(stats, player, fields, k) ==
    IF k > Len(fields) THEN [ok |-> TRUE, stats |-> stats]
    ELSE CHOOSE out \in
            {IF r.ok
             THEN AddFieldsAssigning([stats EXCEPT ![fields[k]] = r.v],
                                     player, fields, k + 1)
             ELSE [ok |-> FALSE, stats |-> stats] :
                r \in {Coerce(fields[k],
                              Get(player, fields[k], PyInt(0)))}} : TRUE

\* stats[field] += int(player.get(field, 0)), or float(...) for innings,
\* for the fields from position k on; stops at the first one that raises
RECURSIVE AddFields(_, _, _, _)
AddFields(stats, player, fields, k) ==
    IF k > Len(fields) THEN [ok |-> TRUE, stats |-> stats]
    ELSE CHOOSE out \in
            {IF r.ok
             THEN AddFields([stats EXCEPT ![fields[k]] =
                                IF fields[k] \in FloatFields
                                THEN FAdd(@, r.v) ELSE @ + r.v],
                            player, fields, k + 1)
             ELSE [ok |-> FALSE, stats |-> stats] :
                r \in {Coerce(fields[k],
                              Get(player, fields[k], PyInt(0)))}} : TRUE

\* as AddLine, every record of the accumulator being one shared record
AddLineSharedRecord(acc, player, team, new, fields) ==
    LET key == PlayerKey(player)
        acc1 == Touch(acc, key, new)
        idx == KeyIndex(acc1, key)
        head == [acc1[idx].stats EXCEPT
                    !.player_name = Get(player, "name", "Unknown"),
                    !.team = team,
                    !.games = @ + 1]
    IN  CHOOSE out \in
            {[ok |-> r.ok,
              acc |-> [k \in 1..Len(acc1) |->
                          [acc1[k] EXCEPT !.stats = r.stats]]] :
                r \in {AddFields(head, player, fields, 1)}} : TRUE

\* as AddLine, name and team written only when the record is new
AddLineKeepingFirst(acc, player, team, new, fields) ==
    LET key == PlayerKey(player)
        acc1 == Touch(acc, key, new)
        idx == KeyIndex(acc1, key)
        head == IF HasKey(acc, key)
                THEN [acc1[idx].stats EXCEPT !.games = @ + 1]
                ELSE [acc1[idx].stats EXCEPT
                         !.player_name = Get(player, "name", "Unknown"),
                         !.team = team,
                         !.games = @ + 1]
    IN  CHOOSE out \in
            {[ok |-> r.ok, acc |-> [acc1 EXCEPT ![idx].stats = r.stats]] :
                r \in {AddFields(head, player, fields, 1)}} : TRUE

\* as AddLine, skipping a line that lacks one of the fields
AddLineIfComplete(acc, player, team, new, fields) ==
    IF \E k \in 1..Len(fields) : fields[k] \notin DOMAIN player
    THEN [ok |-> TRUE, acc |-> acc]
    ELSE LET key == PlayerKey(player)
             acc1 == Touch(acc, key, new)
             idx == KeyIndex(acc1, key)
             head == [acc1[idx].stats EXCEPT
                         !.player_name = Get(player, "name", "Unknown"),
                         !.team = team,
                         !.games = @ + 1]
         IN  CHOOSE out \in
                {[ok |-> r.ok, acc |-> [acc1 EXCEPT ![idx].stats = r.stats]] :
                    r \in {AddFields(head, player, fields, 1)}} : TRUE

\* the body of the loop over the lines of one side
AddLine(acc, player, team, new, fields) ==
    LET key == PlayerKey(player)
        acc1 == Touch(acc, key, new)
        idx == KeyIndex(acc1, key)
        head == [acc1[idx].stats EXCEPT
                    !.player_name = Get(player, "name", "Unknown"),
                    !.team = team,
                    !.games = @ + 1]
    IN  CHOOSE out \in
            {[ok |-> r.ok, acc |-> [acc1 EXCEPT ![idx].stats = r.stats]] :
                r \in {AddFields(head, player, fields, 1)}} : TRUE

\* the loop over the lines of one side, from line k on
RECURSIVE AddLines(_, _, _, _, _, _)
AddLines(acc, lines, k, team, new, fields) ==
    IF k > Len(lines) THEN [ok |-> TRUE, acc |-> acc]
    ELSE CHOOSE out \in
            {IF r.ok THEN AddLines(r.acc, lines, k + 1, team, new, fields)
             ELSE r :
                r \in {AddLine(acc, lines[k], team, new, fields)}} : TRUE

\* as ProcessGameStats, without the loop over the away side
ProcessGameStatsHomeOnly(game, acc, homeLines, awayLines, new, fields) ==
    IF game = None THEN [ok |-> FALSE, acc |-> acc]
    ELSE AddLines(acc, Get(game, homeLines, <<>>), 1,
                  Get(game, "home_team", "Unknown"), new, fields)

\* home side, then away side; game.get on None raises AttributeError
ProcessGameStats(game, acc, homeLines, awayLines, new, fields) ==
    IF game = None THEN [ok |-> FALSE, acc |-> acc]
    ELSE CHOOSE out \in
            {IF home.ok
             THEN AddLines(home.acc, Get(game, awayLines, <<>>), 1,
                           Get(game, "away_team", "Unknown"), new, fields)
             ELSE home :
                home \in {AddLines(acc, Get(game, homeLines, <<>>), 1,
                                   Get(game, "home_team", "Unknown"),
                                   new, fields)}} : TRUE

ProcessGameBattingStats(game, acc) ==
    ProcessGameStats(game, acc, "home_team_batting", "away_team_batting",
                     NewBattingStats, BattingFields)

ProcessGamePitchingStats(game, acc) ==
    ProcessGameStats(game, acc, "home_team_pitching", "away_team_pitching",
                     NewPitchingStats, PitchingFields)

\* as TotalBases, the extra-base hits counted again among the hits
TotalBasesOverHits(stats) ==
    stats.hits + stats.doubles * 2 + stats.triples * 3 + stats.home_runs * 4

TotalBases(stats) ==
    stats.hits - stats.doubles - stats.triples - stats.home_runs
    + stats.doubles * 2 + stats.triples * 3 + stats.home_runs * 4

\* round(a / b, ndigits)
Ratio(a, b, ndigits) == PyRound(IntTrueDiv(a, b), ndigits)

\* as BattingAverages, the batting average taken over plate appearances
BattingAveragesPerPlateAppearance(stats) ==
    CHOOSE out \in
        {[stats EXCEPT !.batting_average = r.avg,
                       !.on_base_percentage = r.obp,
                       !.slugging_percentage = r.slg,
                       !.ops = PyRound(FAdd(r.obp, r.slg), 3)] :
            r \in {[avg |-> IF stats.at_bats > 0
                            THEN Ratio(stats.hits,
                                       stats.at_bats + stats.walks, 3)
                            ELSE stats.batting_average,
                    obp |-> IF stats.at_bats + stats.walks > 0
                            THEN Ratio(stats.hits + stats.walks,
                                       stats.at_bats + stats.walks, 3)
                            ELSE stats.on_base_percentage,
                    slg |-> IF stats.at_bats > 0
                            THEN Ratio(TotalBases(stats), stats.at_bats, 3)
                            ELSE stats.slugging_percentage]}} : TRUE

\* as BattingAverages, a walk not counted as reaching base
BattingAveragesWalksUncounted(stats) ==
    CHOOSE out \in
        {[stats EXCEPT !.batting_average = r.avg,
                       !.on_base_percentage = r.obp,
                       !.slugging_percentage = r.slg,
                       !.ops = PyRound(FAdd(r.obp, r.slg), 3)] :
            r \in {[avg |-> IF stats.at_bats > 0
                            THEN Ratio(stats.hits, stats.at_bats, 3)
                            ELSE stats.batting_average,
                    obp |-> IF stats.at_bats + stats.walks > 0
                            THEN Ratio(stats.hits,
                                       stats.at_bats + stats.walks, 3)
                            ELSE stats.on_base_percentage,
                    slg |-> IF stats.at_bats > 0
                            THEN Ratio(TotalBases(stats), stats.at_bats, 3)
                            ELSE stats.slugging_percentage]}} : TRUE

\* as BattingAverages, ops computed from the unrounded quotients
BattingAveragesOpsFromTotals(stats) ==
    CHOOSE out \in
        {[stats EXCEPT !.batting_average = r.avg,
                       !.on_base_percentage = r.obp,
                       !.slugging_percentage = r.slg,
                       !.ops = PyRound(FAdd(r.rawObp, r.rawSlg), 3)] :
            r \in {[avg |-> IF stats.at_bats > 0
                            THEN Ratio(stats.hits, stats.at_bats, 3)
                            ELSE stats.batting_average,
                    obp |-> IF stats.at_bats + stats.walks > 0
                            THEN Ratio(stats.hits + stats.walks,
                                       stats.at_bats + stats.walks, 3)
                            ELSE stats.on_base_percentage,
                    slg |-> IF stats.at_bats > 0
                            THEN Ratio(TotalBases(stats), stats.at_bats, 3)
                            ELSE stats.slugging_percentage,
                    rawObp |-> IF stats.at_bats + stats.walks > 0
                               THEN IntTrueDiv(stats.hits + stats.walks,
                                               stats.at_bats + stats.walks)
                               ELSE stats.on_base_percentage,
                    rawSlg |-> IF stats.at_bats > 0
                               THEN IntTrueDiv(TotalBases(stats),
                                               stats.at_bats)
                               ELSE stats.slugging_percentage]}} : TRUE

\* as BattingAverages, the on-base percentage guarded by at_bats
BattingAveragesGuardedByAtBats(stats) ==
    CHOOSE out \in
        {[stats EXCEPT !.batting_average = r.avg,
                       !.on_base_percentage = r.obp,
                       !.slugging_percentage = r.slg,
                       !.ops = PyRound(FAdd(r.obp, r.slg), 3)] :
            r \in {[avg |-> IF stats.at_bats > 0
                            THEN Ratio(stats.hits, stats.at_bats, 3)
                            ELSE stats.batting_average,
                    obp |-> IF stats.at_bats > 0
                            THEN Ratio(stats.hits + stats.walks,
                                       stats.at_bats + stats.walks, 3)
                            ELSE stats.on_base_percentage,
                    slg |-> IF stats.at_bats > 0
                            THEN Ratio(TotalBases(stats), stats.at_bats, 3)
                            ELSE stats.slugging_percentage]}} : TRUE

\* the derived statistics of one batting record
BattingAverages(stats) ==
    CHOOSE out \in
        {[stats EXCEPT !.batting_average = r.avg,
                       !.on_base_percentage = r.obp,
                       !.slugging_percentage = r.slg,
                       !.ops = PyRound(FAdd(r.obp, r.slg), 3)] :
            r \in {[avg |-> IF stats.at_bats > 0
                            THEN Ratio(stats.hits, stats.at_bats, 3)
                            ELSE stats.batting_average,
                    obp |-> IF stats.at_bats + stats.walks > 0
                            THEN Ratio(stats.hits + stats.walks,
                                       stats.at_bats + stats.walks, 3)
                            ELSE stats.on_base_percentage,
                    slg |-> IF stats.at_bats > 0
                            THEN Ratio(TotalBases(stats), stats.at_bats, 3)
                            ELSE stats.slugging_percentage]}} : TRUE

\* as PitchingAverages, the earned runs taken per inning and not per nine
PitchingAveragesPerInning(stats) ==
    IF FPos(stats.innings_pitched)
    THEN [stats EXCEPT
            !.era = PyRound(FDiv(FFromInt(stats.earned_runs),
                                 stats.innings_pitched), 2),
            !.whip = PyRound(FDiv(FFromInt(stats.hits_allowed
                                           + stats.walks_allowed),
                                  stats.innings_pitched), 2)]
    ELSE stats

\* as PitchingAverages, a pitcher without an out rated as over one inning
PitchingAveragesOverOneInning(stats) ==
    LET innings == IF FPos(stats.innings_pitched) THEN stats.innings_pitched
                   ELSE FFromInt(1)
    IN  [stats EXCEPT
            !.era = PyRound(FDiv(FFromInt(stats.earned_runs * 9), innings), 2),
            !.whip = PyRound(FDiv(FFromInt(stats.hits_allowed
                                           + stats.walks_allowed),
                                  innings), 2)]

\* the derived statistics of one pitching record
PitchingAverages(stats) ==
    IF FPos(stats.innings_pitched)
    THEN [stats EXCEPT
            !.era = PyRound(FDiv(FFromInt(stats.earned_runs * 9),
                                 stats.innings_pitched), 2),
            !.whip = PyRound(FDiv(FFromInt(stats.hits_allowed
                                           + stats.walks_allowed),
                                  stats.innings_pitched), 2)]
    ELSE stats

CalculateBattingAverages(acc) ==
    [k \in 1..Len(acc) |-> BattingAverages(acc[k].stats)]

CalculatePitchingAverages(acc) ==
    [k \in 1..Len(acc) |-> PitchingAverages(acc[k].stats)]


(***************************************************************************)
(* Inputs.  The lines are those the box-score provider stores, with the    *)
(* irregular ones a stored file can hold: absent fields, numbers stored as *)
(* strings or floats, null fields.  Innings are the floats the provider    *)
(* computes from the "<whole>.<outs>" notation.                            *)
(***************************************************************************)
InningsValue(whole, outs) == FAdd(FFromInt(whole), IntTrueDiv(outs, 3))

BLine(id, name, ab, h, r, rbi, d, t, hr, bb, k) ==
    [player_id |-> id, name |-> name, at_bats |-> PyInt(ab),
     hits |-> PyInt(h), runs |-> PyInt(r), rbis |-> PyInt(rbi),
     doubles |-> PyInt(d), triples |-> PyInt(t), home_runs |-> PyInt(hr),
     walks |-> PyInt(bb), strikeouts |-> PyInt(k)]

PLine(id, name, w, l, s, ip, h, r, er, bb, k, hr) ==
    [player_id |-> id, name |-> name, wins |-> PyInt(w), losses |-> PyInt(l),
     saves |-> PyInt(s), innings_pitched |-> PyFloat(ip),
     hits_allowed |-> PyInt(h), runs_allowed |-> PyInt(r),
     earned_runs |-> PyInt(er), walks_allowed |-> PyInt(bb),
     strikeouts |-> PyInt(k), home_runs_allowed |-> PyInt(hr)]

Ann4 == BLine("p1", "Ann", 4, 2, 1, 2, 1, 0, 1, 0, 1)
AnnWalk == [player_id |-> "p1", name |-> "Anna", at_bats |-> PyInt(0),
            walks |-> PyInt(1)]
Bob3 == BLine("p2", "Bob", 3, 1, 0, 0, 0, 1, 0, 1, 2)
BobRun == BLine("p2", "Bob", 0, 0, 1, 0, 0, 0, 0, 0, 0)
CyAnon == [name |-> "Cy", at_bats |-> PyInt(1), hits |-> PyInt(1)]
CyEmptyId == [player_id |-> "", name |-> "Cy", at_bats |-> PyInt(2),
              strikeouts |-> PyInt(2)]
Nameless == [at_bats |-> PyStr(<<"1", "6">>), hits |-> PyFloat(FFromInt(1))]
BadBat == [player_id |-> "p2", name |-> "Bob", at_bats |-> PyInt(1),
           hits |-> PyStr(<<"x">>), walks |-> PyInt(1)]
NullBat == [player_id |-> "p1", name |-> "Ann", at_bats |-> None]

Dee61 == PLine("p3", "Dee", 1, 0, 0, InningsValue(6, 1), 5, 3, 3, 2, 7, 1)
DeeThird == PLine("p3", "Dee", 0, 0, 0, InningsValue(0, 1), 1, 0, 0, 0, 1, 0)
DeeSave == PLine("p3", "Dee", 0, 0, 1, InningsValue(0, 1), 0, 0, 0, 1, 0, 0)
DeeTwo == PLine("p3", "D. Dee", 0, 1, 0, InningsValue(2, 0), 3, 2, 1, 0, 2, 1)
EveNoOut == PLine("p4", "Eve", 0, 1, 0, InningsValue(0, 0), 2, 1, 1, 1, 0, 0)
AnnPitch == [player_id |-> "p1", name |-> "Ann", innings_pitched |-> PyInt(1),
             hits_allowed |-> PyInt(1)]
BadPitch == [player_id |-> "p4", name |-> "Eve", wins |-> PyInt(1),
             innings_pitched |-> PyStr(<<"x">>), earned_runs |-> PyInt(2)]

Game(date, home, away, homeId, awayId, hs, as, hb, ab, hp, ap) ==
    [date |-> date, home_team |-> home, away_team |-> away,
     home_team_id |-> homeId, away_team_id |-> awayId,
     home_score |-> PyInt(hs), away_score |-> PyInt(as),
     home_team_batting |-> hb, away_team_batting |-> ab,
     home_team_pitching |-> hp, away_team_pitching |-> ap]

\* three games in which Dee pitches 1/3, 1/3 and 2 innings
GameA == Game("d1", "Reds", "Cubs", 113, 112, 5, 3,
              <<Ann4, Bob3>>, <<CyAnon>>, <<DeeThird>>, <<EveNoOut>>)
GameB == Game("d2", "Cubs", "Reds", 112, 113, 0, 1,
              <<CyEmptyId, CyAnon>>, <<AnnWalk, BobRun>>,
              <<EveNoOut>>, <<DeeSave, AnnPitch>>)
GameC == Game("d3", "Reds", "Mets", 113, 121, 2, 2,
              <<Bob3, Ann4>>, <<>>, <<DeeTwo>>, <<>>)
GameD == Game("d4", "Mets", "Reds", 121, 113, 4, 6,
              <<Nameless>>, <<Ann4, Ann4>>, <<>>, <<Dee61>>)
\* records with absent fields
GameE == [date |-> "d5", home_team_batting |-> <<AnnWalk>>,
          away_team_pitching |-> <<AnnPitch, EveNoOut>>]
GameF == [date |-> "d6", home_team |-> "Cubs", away_team |-> "Mets",
          away_team_batting |-> <<BobRun>>]
NoFields == <<>>
\* records with a malformed field
GameBadBat == Game("d7", "Reds", "Cubs", 113, 112, 1, 0,
                   <<Ann4, BadBat, Bob3>>, <<CyAnon>>, <<Dee61>>, <<>>)
GameNullBat == Game("d8", "Cubs", "Reds", 112, 113, 1, 0,
                    <<CyAnon>>, <<NullBat>>, <<>>, <<Dee61>>)
GameBadPitch == Game("d9", "Reds", "Mets", 113, 121, 3, 0,
                     <<Bob3>>, <<>>, <<DeeThird, BadPitch>>, <<DeeTwo>>)

GamePool ==
    {GameA, GameB, GameC, GameD, GameE, GameF, NoFields, GameBadBat,
     GameNullBat, GameBadPitch, None}

CallPool == {GameA, GameB, GameC}

MaxGames == 2

MaxCalls == 2

RECURSIVE SeqsUpTo(_, _)
SeqsUpTo(S, n) ==
    IF n = 0 THEN {<<>>}
    ELSE LET shorter == SeqsUpTo(S, n - 1)
         IN  shorter \cup {Append(q, x) : q \in shorter, x \in S}

Inputs == SeqsUpTo(GamePool, MaxGames)

\* the orders in which a store can hold games of CallPool
CallInputs ==
    {q \in SeqsUpTo(CallPool, Cardinality(CallPool)) :
        \A a, b \in 1..Len(q) : a /= b => q[a] /= q[b]}

(***************************************************************************)
(* The state: the list of games handed to calculate_aggregate_stats, the   *)
(* position of the call in its code, its local variables and its result.   *)
(***************************************************************************)
VARIABLES
    games,            \* the list passed as argument
    pc,               \* "idle", "batting", "pitching", "pitching_averages",
                      \* "done" (returned) or "raised" (left by an exception)
    i,                \* index of the game the loop is at
    batting_stats,    \* the call's batting accumulator
    pitching_stats,   \* the call's pitching accumulator
    batting_list,     \* first component of the result
    pitching_list,    \* second component of the result
    games_at_call,    \* history: the argument as it was when the call began
    prev,             \* history: the previous call, its argument and outcome
    calls,            \* history: number of calls begun
    client_pc,        \* "idle" or "parse_innings" (parse_innings is running)
    innings_str,      \* the argument of parse_innings
    innings,          \* the value parse_innings returned, None before
    player_stats,     \* the box-score row given to _extract_pitching_stats
    pitching_data,    \* the line it returned, None before or when it failed
    teams_cache,      \* MLBApiClient.teams_cache
    teams_call,       \* history: the last get_teams call and what it did
    fetches,          \* history: number of requests sent to the service
    data,             \* DataManager.data
    store_op,         \* history: the last DataManager call, the list before
                      \* it, whether the file could be written, the result
    now,              \* the clock read by datetime.now()
    team_summary,     \* the result of get_team_summary, None before
    frames            \* the frames of concurrent calculate_aggregate_stats
                      \* calls, one per call

statsVars == <<games, pc, i, batting_stats, pitching_stats, batting_list,
               pitching_list, games_at_call, prev, calls>>

clientVars == <<client_pc, innings_str, innings, player_stats, pitching_data>>

teamsVars == <<teams_cache, teams_call, fetches>>

storeVars == <<data, store_op, now>>

summaryVars == <<team_summary>>

frameVars == <<frames>>

vars == <<statsVars, clientVars, teamsVars, storeVars, summaryVars,
          frameVars>>

besideStats == <<clientVars, teamsVars, storeVars, summaryVars, frameVars>>

besideClient == <<statsVars, teamsVars, storeVars, summaryVars, frameVars>>

NoTeamsCall == [fetched |-> FALSE, raised |-> FALSE, returned |-> <<>>,
                cache_before |-> None]

NoOp == [name |-> "none", game |-> None, index |-> 0, before |-> <<>>,
         saved |-> FALSE, result |-> FALSE]

NoCall == [ok |-> FALSE, games |-> <<>>, batting_stats |-> <<>>,
           pitching_stats |-> <<>>, batting_list |-> <<>>,
           pitching_list |-> <<>>]

InitWith(inputs) ==
    /\ games \in inputs
    /\ pc = "idle"
    /\ i = 0
    /\ batting_stats = <<>>
    /\ pitching_stats = <<>>
    /\ batting_list = <<>>
    /\ pitching_list = <<>>
    /\ games_at_call = <<>>
    /\ prev = NoCall
    /\ calls = 0
    /\ client_pc = "idle"
    /\ innings_str = None
    /\ innings = None
    /\ player_stats = None
    /\ pitching_data = None
    /\ teams_cache = None
    /\ teams_call = NoTeamsCall
    /\ fetches = 0
    /\ data = [games |-> <<>>, created_at |-> 0]
    /\ store_op = NoOp
    /\ now = 1
    /\ team_summary = None
    /\ frames = <<>>

Init == InitWith(Inputs)

InitCalls == InitWith(CallInputs)

\* as Call, the accumulators kept from the call before
CallKeepingAccumulators ==
    /\ pc = "idle"
    /\ pc' = "batting"
    /\ i' = 1
    /\ batting_list' = <<>>
    /\ pitching_list' = <<>>
    /\ games_at_call' = games
    /\ calls' = calls + 1
    /\ UNCHANGED <<games, prev, batting_stats, pitching_stats>>
    /\ UNCHANGED besideStats

\* entry of calculate_aggregate_stats: two new accumulators
Call ==
    /\ pc = "idle"
    /\ pc' = "batting"
    /\ i' = 1
    /\ batting_stats' = <<>>
    /\ pitching_stats' = <<>>
    /\ batting_list' = <<>>
    /\ pitching_list' = <<>>
    /\ games_at_call' = games
    /\ calls' = calls + 1
    /\ UNCHANGED <<games, prev>>
    /\ UNCHANGED besideStats

\* as GameBatting, taking the lines out of the game while reading them
GameBattingConsuming ==
    /\ pc = "batting"
    /\ i <= Len(games)
    /\ \E r \in {ProcessGameBattingStats(games[i], batting_stats)} :
           /\ batting_stats' = r.acc
           /\ pc' = IF r.ok THEN "pitching" ELSE "raised"
    /\ games' = [games EXCEPT ![i] =
                    IF @ = None THEN @
                    ELSE [f \in DOMAIN @ |->
                            IF f \in {"home_team_batting", "away_team_batting"}
                            THEN <<>> ELSE @[f]]]
    /\ UNCHANGED <<i, pitching_stats, batting_list, pitching_list,
                   games_at_call, prev, calls>>
    /\ UNCHANGED besideStats

\* self._process_game_batting_stats(game, batting_stats)
GameBatting ==
    /\ pc = "batting"
    /\ i <= Len(games)
    /\ \E r \in {ProcessGameBattingStats(games[i], batting_stats)} :
           /\ batting_stats' = r.acc
           /\ pc' = IF r.ok THEN "pitching" ELSE "raised"
    /\ UNCHANGED <<games, i, pitching_stats, batting_list, pitching_list,
                   games_at_call, prev, calls>>
    /\ UNCHANGED besideStats

\* self._process_game_pitching_stats(game, pitching_stats)
GamePitching ==
    /\ pc = "pitching"
    /\ \E r \in {ProcessGamePitchingStats(games[i], pitching_stats)} :
           /\ pitching_stats' = r.acc
           /\ pc' = IF r.ok THEN "batting" ELSE "raised"
           /\ i' = IF r.ok THEN i + 1 ELSE i
    /\ UNCHANGED <<games, batting_stats, batting_list, pitching_list,
                   games_at_call, prev, calls>>
    /\ UNCHANGED besideStats

\* batting_list = self._calculate_batting_averages(batting_stats)
BattingAveragesStep ==
    /\ pc = "batting"
    /\ i > Len(games)
    /\ batting_list' = CalculateBattingAverages(batting_stats)
    /\ batting_stats' = [k \in 1..Len(batting_stats) |->
                            [key |-> batting_stats[k].key,
                             stats |-> batting_list'[k]]]
    /\ pc' = "pitching_averages"
    /\ UNCHANGED <<games, i, pitching_stats, pitching_list, games_at_call,
                   prev, calls>>
    /\ UNCHANGED besideStats

\* pitching_list = self._calculate_pitching_averages(pitching_stats); return
PitchingAveragesStep ==
    /\ pc = "pitching_averages"
    /\ pitching_list' = CalculatePitchingAverages(pitching_stats)
    /\ pitching_stats' = [k \in 1..Len(pitching_stats) |->
                            [key |-> pitching_stats[k].key,
                             stats |-> pitching_list'[k]]]
    /\ pc' = "done"
    /\ UNCHANGED <<games, i, batting_stats, batting_list, games_at_call,
                   prev, calls>>
    /\ UNCHANGED besideStats

\* the statistics page is opened again, on the games the store holds then
NextCall ==
    /\ pc \in {"done", "raised"}
    /\ calls < MaxCalls
    /\ \E gs \in CallInputs : games' = gs
    /\ prev' = [ok |-> pc = "done", games |-> games,
                batting_stats |-> batting_stats,
                pitching_stats |-> pitching_stats,
                batting_list |-> batting_list,
                pitching_list |-> pitching_list]
    /\ pc' = "idle"
    /\ UNCHANGED <<i, batting_stats, pitching_stats, batting_list,
                   pitching_list, games_at_call, calls>>
    /\ UNCHANGED besideStats

Next ==
    \/ Call
    \/ GameBatting
    \/ GamePitching
    \/ BattingAveragesStep
    \/ PitchingAveragesStep

NextCalls == Next \/ NextCall

Spec == Init /\ [][Next]_vars

SpecCalls == InitCalls /\ [][NextCalls]_vars

(***************************************************************************)
(* The values a box score can hold under 'ip': nothing, the notations      *)
(* "<whole>", "<whole>.<outs>" and irregular strings.                      *)
(***************************************************************************)
MaxWhole == 12

Endings ==
    {<<>>, <<".", "0">>, <<".", "1">>, <<".", "2">>, <<".", "3">>, <<".">>,
     <<".", "x">>, <<".", "1", ".", "2">>, <<".", "1", "0">>}

InningsPool ==
    {None, PyStr(<<>>), PyStr(<<"x">>), PyStr(<<"a", "b", "c">>),
     PyStr(<<"x", ".", "1">>), PyStr(<<".", "1">>),
     PyStr(<<"0", "6", ".", "2">>)}
    \cup {PyStr(IntToChars(w) \o ending) : w \in 0..MaxWhole,
                                           ending \in Endings}

\* parse_innings(player_stats.get('ip', 0)) is called
ParseInningsCall ==
    /\ client_pc = "idle"
    /\ \/ \E value \in InningsPool : innings_str' = value
       \/ innings_str' = PyInt(0)
    /\ innings' = None
    /\ client_pc' = "parse_innings"
    /\ UNCHANGED <<besideClient, player_stats, pitching_data>>

\* parse_innings runs and returns
ParseInningsReturn ==
    /\ client_pc = "parse_innings"
    /\ innings' = ParseInnings(innings_str)
    /\ client_pc' = "idle"
    /\ UNCHANGED <<besideClient, innings_str, player_stats, pitching_data>>

InitInnings == InitWith({<<>>})

NextInnings == ParseInningsCall \/ ParseInningsReturn

SpecInnings == InitInnings /\ [][NextInnings]_vars

(***************************************************************************)
(* The rows a box score can hold for a pitcher: a 'namefield' made of a    *)
(* name and decision annotations, whole or cut short, in any order; a      *)
(* null or absent 'namefield'; an 'ip' or none.                            *)
(***************************************************************************)
MaxMarks == 2

Pieces ==
    {<<"A", " ">>, WinMarker, LossMarker, SaveMarker, <<"(", "W">>,
     <<"1", ")">>}

RECURSIVE Flatten(_)
Flatten(q) == IF q = <<>> THEN <<>> ELSE Head(q) \o Flatten(Tail(q))

NamefieldPool ==
    {Flatten(q) : q \in UNION {[1..n -> Pieces] : n \in 0..MaxMarks}}

PlayerStatsPool ==
    {[namefield |-> PyStr(cs), ip |-> PyStr(<<"6", ".", "1">>)] :
        cs \in NamefieldPool}
    \cup {[namefield |-> PyStr(cs)] : cs \in NamefieldPool}
    \cup {[namefield |-> None, ip |-> PyStr(<<"6", ".", "1">>)],
          [ip |-> PyStr(<<"6", ".", "1">>)]}

\* self._extract_pitching_stats(player_stats, box_score) is called
ExtractPitchingStatsCall ==
    /\ client_pc = "idle"
    /\ \E row \in PlayerStatsPool : player_stats' = row
    /\ pitching_data' = None
    /\ client_pc' = "extract_pitching_stats"
    /\ UNCHANGED <<besideClient, innings_str, innings>>

\* _extract_pitching_stats runs and returns; parse_innings is called when
\* the decision was read without an exception
ExtractPitchingStatsReturn ==
    /\ client_pc = "extract_pitching_stats"
    /\ \E line \in {ExtractPitchingStats(player_stats)} :
          /\ pitching_data' = line
          /\ IF line = None THEN UNCHANGED <<innings_str, innings>>
             ELSE /\ innings_str' = Get(player_stats, "ip", PyInt(0))
                  /\ innings' = line.innings_pitched
    /\ client_pc' = "idle"
    /\ UNCHANGED <<besideClient, player_stats>>

NextExtract == ExtractPitchingStatsCall \/ ExtractPitchingStatsReturn

SpecExtract == InitInnings /\ [][NextExtract]_vars

(***************************************************************************)
(* DataManager.  self.data is the record of its keys: 'games' (the stored  *)
(* list), 'created_at' and, after the first save, 'updated_at'.  A game is *)
(* the dict of its fields; only 'date', 'home_team_id' and 'away_team_id'  *)
(* are read.  The outcome of writing the file is the environment's: every  *)
(* call of _save_data either succeeds or fails.                            *)
(***************************************************************************)
\* the text an f-string gives for a value
Format(value) ==
    CASE value.t = "str" -> value.v
      [] value.t = "int" -> IntToChars(value.v)
      [] value.t = "NoneType" -> <<"N", "o", "n", "e">>

\* f"{game.get('date')}_{game.get('home_team_id')}_{game.get('away_team_id')}"
GameId(game) ==
    Format(Get(game, "date", None)) \o <<"_">>
        \o Format(Get(game, "home_team_id", None)) \o <<"_">>
        \o Format(Get(game, "away_team_id", None))

\* d[k] = v on a dict
SetItem(d, k, v) ==
    [f \in DOMAIN d \cup {k} |-> IF f = k THEN v ELSE d[f]]

\* as IsStored, the game compared with the last stored game only
IsStoredLast(game, stored) ==
    stored /= <<>> /\ GameId(stored[Len(stored)]) = GameId(game)

\* the loop of add_game over the stored games
IsStored(game, stored) ==
    \E k \in 1..Len(stored) : GameId(stored[k]) = GameId(game)

\* _save_data: 'updated_at' is set before the file is opened
SaveData(d, t) == SetItem(d, "updated_at", t)

\* add_game(game_data, notes) at time t, the file written or not (saved)
AddGameTo(d, game, notes, t, saved) ==
    IF IsStored(game, d.games) THEN [data |-> d, result |-> FALSE]
    ELSE [data |-> SaveData(
                       [d EXCEPT !.games =
                           Append(@, SetItem(SetItem(game, "notes", notes),
                                             "added_at", t))], t),
          result |-> saved]

\* list.pop(index) for 0 <= index < len
Pop(list, index) ==
    [k \in 1..(Len(list) - 1) |->
        IF k <= index THEN list[k] ELSE list[k + 1]]

\* as RemoveGameFrom, a negative index counted from the end as list.pop does
RemoveGameFromEitherEnd(d, index, t, saved) ==
    IF -Len(d.games) <= index /\ index < Len(d.games)
    THEN [data |-> SaveData(
                       [d EXCEPT !.games =
                           Pop(@, IF index < 0 THEN Len(@) + index
                                  ELSE index)], t),
          result |-> saved]
    ELSE [data |-> d, result |-> FALSE]

\* remove_game(index)
RemoveGameFrom(d, index, t, saved) ==
    IF 0 <= index /\ index < Len(d.games)
    THEN [data |-> SaveData([d EXCEPT !.games = Pop(@, index)], t),
          result |-> saved]
    ELSE [data |-> d, result |-> FALSE]

\* clear_all_data()
ClearedData(t, saved) ==
    [data |-> SaveData([games |-> <<>>, created_at |-> t], t),
     result |-> saved]

(***************************************************************************)
(* The games offered to the store: two games of one day between the same   *)
(* teams (a doubleheader), the same teams on another day and with the      *)
(* sides exchanged, a game with its identifiers stored as text, and a game *)
(* without identifiers.                                                    *)
(***************************************************************************)
MaxClock == 4

StoreGame(game_id, date, home, away) ==
    [game_id |-> game_id, date |-> PyStr(date), home_team_id |-> home,
     away_team_id |-> away]

StoreGames ==
    <<StoreGame(1, <<"d", "1">>, PyInt(113), PyInt(112)),
      StoreGame(2, <<"d", "1">>, PyInt(113), PyInt(112)),
      StoreGame(3, <<"d", "2">>, PyInt(113), PyInt(112)),
      StoreGame(4, <<"d", "1">>, PyInt(112), PyInt(113)),
      StoreGame(5, <<"d", "1">>, PyStr(<<"1", "1", "3">>), PyInt(112)),
      [game_id |-> 6, date |-> PyStr(<<"d", "1">>)]>>

NotesPool == {"", "rain"}

besideStore == <<statsVars, clientVars, teamsVars, summaryVars, frameVars>>

\* data_manager.add_game(game_data, notes)
AddGame ==
    /\ now < MaxClock
    /\ \E g \in 1..Len(StoreGames), notes \in NotesPool, saved \in BOOLEAN :
          \E r \in {AddGameTo(data, StoreGames[g], notes, now, saved)} :
              /\ data' = r.data
              /\ store_op' = [name |-> "add_game", game |-> StoreGames[g],
                              index |-> 0, before |-> data.games,
                              saved |-> saved, result |-> r.result]
    /\ now' = now + 1
    /\ UNCHANGED besideStore

\* data_manager.remove_game(index)
RemoveGame ==
    /\ now < MaxClock
    /\ \E index \in -2..Len(data.games), saved \in BOOLEAN :
          \E r \in {RemoveGameFrom(data, index, now, saved)} :
              /\ data' = r.data
              /\ store_op' = [name |-> "remove_game", game |-> None,
                              index |-> index, before |-> data.games,
                              saved |-> saved, result |-> r.result]
    /\ now' = now + 1
    /\ UNCHANGED besideStore

\* data_manager.clear_all_data()
ClearAllData ==
    /\ now < MaxClock
    /\ \E saved \in BOOLEAN :
          \E r \in {ClearedData(now, saved)} :
              /\ data' = r.data
              /\ store_op' = [name |-> "clear_all_data", game |-> None,
                              index |-> 0, before |-> data.games,
                              saved |-> saved, result |-> r.result]
    /\ now' = now + 1
    /\ UNCHANGED besideStore

NextStore == AddGame \/ RemoveGame \/ ClearAllData

SpecStore == InitInnings /\ [][NextStore]_vars

(***************************************************************************)
(* MLBApiClient.get_teams.  teams_cache is None or the list cached.  The   *)
(* remote service is the environment: a request raises, or answers with a  *)
(* value that may lack 'teams', hold teams in any order, teams without a   *)
(* name, or a null where a name or a division is expected.                 *)
(***************************************************************************)
PyList(q) == [t |-> "list", v |-> q]

\* as CacheHit, the cache tested for truth: an empty list is no hit
CacheHitIfNotEmpty(cache) == cache.t = "list" /\ cache.v /= <<>>

\* self.teams_cache is not None
CacheHit(cache) == cache.t /= "NoneType"

\* the characters of the team names, in code point order
Alphabet == <<"C", "M", "R", "b", "d", "e", "s", "t", "u">>

CharRank(c) == CHOOSE k \in 1..Len(Alphabet) : Alphabet[k] = c

\* a < b on two strings
RECURSIVE StrLess(_, _)
StrLess(a, b) ==
    IF b = <<>> THEN FALSE
    ELSE IF a = <<>> THEN TRUE
    ELSE IF Head(a) = Head(b) THEN StrLess(Tail(a), Tail(b))
    ELSE CharRank(Head(a)) < CharRank(Head(b))

\* team.get('division', {}).get('name', ''): raises on a null division
NestedName(team, field) ==
    IF field \notin DOMAIN team THEN Returned(PyStr(<<>>))
    ELSE IF team[field] = None THEN Raised
    ELSE Returned(Get(team[field], "name", PyStr(<<>>)))

\* the dict appended for one team of the answer
TeamEntry(team) ==
    [id |-> Get(team, "id", None),
     name |-> Get(team, "name", PyStr(<<>>)),
     abbreviation |-> Get(team, "abbreviation", PyStr(<<>>)),
     teamName |-> Get(team, "teamName", PyStr(<<>>)),
     locationName |-> Get(team, "locationName", PyStr(<<>>)),
     division |-> NestedName(team, "division").v,
     league |-> NestedName(team, "league").v]

\* list.sort(key=name), stable: the place of one more entry
RECURSIVE Inserted(_, _)
Inserted(sorted, entry) ==
    IF sorted = <<>> THEN <<entry>>
    ELSE IF StrLess(entry.name.v, sorted[Len(sorted)].name.v)
    THEN Append(Inserted(SubSeq(sorted, 1, Len(sorted) - 1), entry),
                sorted[Len(sorted)])
    ELSE Append(sorted, entry)

RECURSIVE SortedByName(_)
SortedByName(entries) ==
    IF entries = <<>> THEN <<>>
    ELSE Inserted(SortedByName(SubSeq(entries, 1, Len(entries) - 1)),
                  entries[Len(entries)])

\* the try block of get_teams on the answer of the service: the list
\* built, or Raised when the request, a null division or league, or the
\* comparison of a name that is no string raises
FetchedTeams(response) ==
    IF response.raises THEN Raised
    ELSE IF response.data = None \/ "teams" \notin DOMAIN response.data
    THEN Returned(<<>>)
    ELSE CHOOSE out \in
            {IF \E k \in 1..Len(teams) :
                    \/ ~NestedName(teams[k], "division").ok
                    \/ ~NestedName(teams[k], "league").ok
             THEN Raised
             ELSE IF /\ Len(teams) > 1
                     /\ \E k \in 1..Len(teams) :
                           Get(teams[k], "name", PyStr(<<>>)).t /= "str"
             THEN Raised
             ELSE IF Len(teams) > 1
             THEN Returned(SortedByName([k \in 1..Len(teams) |->
                                            TeamEntry(teams[k])]))
             ELSE Returned([k \in 1..Len(teams) |-> TeamEntry(teams[k])]) :
                teams \in {response.data.teams}} : TRUE

\* get_teams() on a cache and on the answer a request would get
GetTeamsOn(cache, response) ==
    IF CacheHit(cache)
    THEN [cache |-> cache, returned |-> cache.v, fetched |-> FALSE,
          raised |-> FALSE]
    ELSE CHOOSE out \in
            {IF r.ok
             THEN [cache |-> PyList(r.v), returned |-> r.v,
                   fetched |-> TRUE, raised |-> FALSE]
             ELSE [cache |-> cache, returned |-> <<>>, fetched |-> TRUE,
                   raised |-> TRUE] :
                r \in {FetchedTeams(response)}} : TRUE

MaxTeams == 2

MaxFetches == 3

Division == [id |-> 205, name |-> PyStr(<<"C", "e", "n", "t", "r", "a", "l">>)]

TeamPool ==
    <<[id |-> PyInt(113), name |-> PyStr(<<"R", "e", "d", "s">>),
       division |-> Division],
      [id |-> PyInt(112), name |-> PyStr(<<"C", "u", "b", "s">>),
       division |-> Division, league |-> [id |-> 104]],
      [id |-> PyInt(121), name |-> PyStr(<<"M", "e", "t", "s">>)],
      [id |-> PyInt(1)],
      [id |-> PyInt(4), name |-> PyStr(<<"C", "u", "b", "s">>)],
      [id |-> PyInt(2), name |-> None],
      [id |-> PyInt(3), name |-> PyStr(<<"M", "e", "t", "s">>),
       division |-> None]>>

\* the lists of up to MaxTeams teams, as the places of the teams in TeamPool
TeamLists == UNION {[1..n -> 1..Len(TeamPool)] : n \in 0..MaxTeams}

besideTeams == <<statsVars, clientVars, storeVars, summaryVars, frameVars>>

\* one call of mlb_client.get_teams(), with the answer of the service
GetTeamsWith(response) ==
    /\ CacheHit(teams_cache) \/ fetches < MaxFetches
    /\ \E r \in {GetTeamsOn(teams_cache, response)} :
          /\ teams_cache' = r.cache
          /\ teams_call' = [fetched |-> r.fetched, raised |-> r.raised,
                            returned |-> r.returned,
                            cache_before |-> teams_cache]
          /\ fetches' = IF r.fetched THEN fetches + 1 ELSE fetches
    /\ UNCHANGED besideTeams

\* get_teams() while the service cannot be reached
GetTeamsUnreachable == GetTeamsWith([raises |-> TRUE, data |-> None])

\* get_teams() while the service answers without a list of teams
GetTeamsNoList ==
    \/ GetTeamsWith([raises |-> FALSE, data |-> None])
    \/ GetTeamsWith([raises |-> FALSE, data |-> [copyright |-> "c"]])

\* get_teams() while the service answers with a list of teams
GetTeamsListed ==
    \E q \in TeamLists :
        GetTeamsWith([raises |-> FALSE,
                      data |-> [teams |-> [k \in 1..Len(q) |->
                                              TeamPool[q[k]]]]])

NextTeams == GetTeamsUnreachable \/ GetTeamsNoList \/ GetTeamsListed

SpecTeams == InitInnings /\ [][NextTeams]_vars

(***************************************************************************)
(* StatsCalculator.get_team_summary.  team_records is a defaultdict, kept  *)
(* as the accumulators above; the result is a record of ok (FALSE when an  *)
(* exception left the call) and the records.                               *)
(***************************************************************************)
NewTeamRecord == [wins |-> 0, losses |-> 0, games_seen |-> 0]

\* team_records[team][field] += 1
Bump(acc, team, field) ==
    CHOOSE out \in
        {[a EXCEPT ![KeyIndex(a, team)].stats[field] = @ + 1] :
            a \in {Touch(acc, team, NewTeamRecord)}} : TRUE

\* as Decided, a game that the home team did not win given to the away team
DecidedElseAway(acc, home_team, away_team, home_score, away_score) ==
    IF home_score > away_score
    THEN Bump(Bump(acc, home_team, "wins"), away_team, "losses")
    ELSE Bump(Bump(acc, away_team, "wins"), home_team, "losses")

\* the if/elif on the two scores
Decided(acc, home_team, away_team, home_score, away_score) ==
    IF home_score > away_score
    THEN Bump(Bump(acc, home_team, "wins"), away_team, "losses")
    ELSE IF away_score > home_score
    THEN Bump(Bump(acc, away_team, "wins"), home_team, "losses")
    ELSE acc

\* the body of the loop over the games; game.get on None and int() of a
\* score that is no number raise before any record is touched
SummaryOfGame(acc, game) ==
    IF game = None THEN [ok |-> FALSE, acc |-> acc]
    ELSE CHOOSE out \in
            {IF r.home_score.ok /\ r.away_score.ok
             THEN [ok |-> TRUE,
                   acc |-> Decided(
                       Bump(Bump(acc, r.home_team, "games_seen"),
                            r.away_team, "games_seen"),
                       r.home_team, r.away_team,
                       r.home_score.v, r.away_score.v)]
             ELSE [ok |-> FALSE, acc |-> acc] :
                r \in {[home_team |-> Get(game, "home_team", "Unknown"),
                        away_team |-> Get(game, "away_team", "Unknown"),
                        home_score |->
                            IntOf(Get(game, "home_score", PyInt(0))),
                        away_score |->
                            IntOf(Get(game, "away_score", PyInt(0)))]}} : TRUE

\* get_team_summary(gs), from game k on
RECURSIVE TeamSummaryFrom(_, _, _)
TeamSummaryFrom(acc, gs, k) ==
    IF k > Len(gs) THEN [ok |-> TRUE, records |-> acc]
    ELSE CHOOSE out \in
            {IF r.ok THEN TeamSummaryFrom(r.acc, gs, k + 1)
             ELSE [ok |-> FALSE, records |-> <<>>] :
                r \in {SummaryOfGame(acc, gs[k])}} : TRUE

GetTeamSummary(gs) == TeamSummaryFrom(<<>>, gs, 1)

\* a game without team names, one with its scores stored as text, one with
\* a null score
GameNoTeams == [date |-> "d10", home_score |-> PyInt(3)]
GameTextScores == [date |-> "d11", home_team |-> "Mets",
                   away_team |-> "Cubs", home_score |-> PyStr(<<"2">>),
                   away_score |-> PyStr(<<"1", "0">>)]
GameNullScore == [date |-> "d12", home_team |-> "Mets",
                  away_team |-> "Cubs", home_score |-> None,
                  away_score |-> PyInt(1)]

SummaryGames ==
    <<GameA, GameB, GameC, GameD, GameE, GameF, NoFields, None,
      GameNoTeams, GameTextScores, GameNullScore>>

\* the lists of up to MaxGames games, as the places of the games in
\* SummaryGames
SummaryInputs == UNION {[1..n -> 1..Len(SummaryGames)] : n \in 0..MaxGames}

besideSummary == <<pc, i, batting_stats, pitching_stats, batting_list,
                   pitching_list, games_at_call, prev, calls, clientVars,
                   teamsVars, storeVars, frameVars>>

\* stats_calculator.get_team_summary(games) on a list of games
TeamSummary ==
    \E q \in SummaryInputs :
        \E gs \in {[k \in 1..Len(q) |-> SummaryGames[q[k]]]} :
            /\ games' = gs
            /\ team_summary' = GetTeamSummary(gs)
            /\ UNCHANGED besideSummary

NextSummary == TeamSummary

SpecSummary == InitInnings /\ [][NextSummary]_vars

(***************************************************************************)
(* Concurrent calls of calculate_aggregate_stats on one StatsCalculator.   *)
(* A frame holds what one call owns: its argument, its position, and the   *)
(* two accumulators and two lists, which are locals of the call.  The      *)
(* steps of the calls interleave between the statements of the method.     *)
(***************************************************************************)
MaxCallers == 2

\* the lists of games the concurrent calls are given
ConcurrentInputs ==
    {q \in SeqsUpTo({GameA, GameB}, MaxGames) :
        \A a, b \in 1..Len(q) : a /= b => q[a] /= q[b]}

\* as AccumulatorsOf, the accumulators kept on the calculator, which all
\* calls share
AccumulatorsOfCalculator(c) == 1

\* the frame holding the accumulators call c works on: its own
AccumulatorsOf(c) == c

NewFrame(gs) ==
    [games |-> gs, pc |-> "batting", i |-> 1, batting_stats |-> <<>>,
     pitching_stats |-> <<>>, batting_list |-> <<>>, pitching_list |-> <<>>]

besideFrames == <<statsVars, clientVars, teamsVars, storeVars, summaryVars>>

\* a call enters calculate_aggregate_stats and creates its accumulators
FrameCall ==
    /\ Len(frames) < MaxCallers
    /\ \E gs \in ConcurrentInputs :
          \E c \in {Len(frames) + 1} :
              frames' = [Append(frames, NewFrame(gs)) EXCEPT
                            ![AccumulatorsOf(c)].batting_stats = <<>>,
                            ![AccumulatorsOf(c)].pitching_stats = <<>>]
    /\ UNCHANGED besideFrames

\* self._process_game_batting_stats(game, batting_stats) in call c
FrameGameBatting ==
    /\ \E c \in 1..Len(frames) :
          /\ frames[c].pc = "batting"
          /\ frames[c].i <= Len(frames[c].games)
          /\ \E r \in {ProcessGameBattingStats(
                           frames[c].games[frames[c].i],
                           frames[AccumulatorsOf(c)].batting_stats)} :
                frames' = [frames EXCEPT
                              ![AccumulatorsOf(c)].batting_stats = r.acc,
                              ![c].pc = IF r.ok THEN "pitching"
                                        ELSE "raised"]
    /\ UNCHANGED besideFrames

\* self._process_game_pitching_stats(game, pitching_stats) in call c
FrameGamePitching ==
    /\ \E c \in 1..Len(frames) :
          /\ frames[c].pc = "pitching"
          /\ \E r \in {ProcessGamePitchingStats(
                           frames[c].games[frames[c].i],
                           frames[AccumulatorsOf(c)].pitching_stats)} :
                frames' = [frames EXCEPT
                              ![AccumulatorsOf(c)].pitching_stats = r.acc,
                              ![c].pc = IF r.ok THEN "batting" ELSE "raised",
                              ![c].i = IF r.ok THEN @ + 1 ELSE @]
    /\ UNCHANGED besideFrames

\* batting_list = self._calculate_batting_averages(batting_stats) in call c
FrameBattingAverages ==
    /\ \E c \in 1..Len(frames) :
          /\ frames[c].pc = "batting"
          /\ frames[c].i > Len(frames[c].games)
          /\ \E acc \in {frames[AccumulatorsOf(c)].batting_stats} :
                \E list \in {CalculateBattingAverages(acc)} :
                    frames' = [frames EXCEPT
                                  ![AccumulatorsOf(c)].batting_stats =
                                      [k \in 1..Len(acc) |->
                                          [key |-> acc[k].key,
                                           stats |-> list[k]]],
                                  ![c].batting_list = list,
                                  ![c].pc = "pitching_averages"]
    /\ UNCHANGED besideFrames

\* pitching_list = self._calculate_pitching_averages(pitching_stats) and
\* the return, in call c
FramePitchingAverages ==
    /\ \E c \in 1..Len(frames) :
          /\ frames[c].pc = "pitching_averages"
          /\ \E acc \in {frames[AccumulatorsOf(c)].pitching_stats} :
                \E list \in {CalculatePitchingAverages(acc)} :
                    frames' = [frames EXCEPT
                                  ![AccumulatorsOf(c)].pitching_stats =
                                      [k \in 1..Len(acc) |->
                                          [key |-> acc[k].key,
                                           stats |-> list[k]]],
                                  ![c].pitching_list = list,
                                  ![c].pc = "done"]
    /\ UNCHANGED besideFrames

NextConcurrent ==
    \/ FrameCall
    \/ FrameGameBatting
    \/ FrameGamePitching
    \/ FrameBattingAverages
    \/ FramePitchingAverages

SpecConcurrent == InitInnings /\ [][NextConcurrent]_vars

(***************************************************************************)
(* What the input holds, read off the input alone.                         *)
(***************************************************************************)
BattingSides == <<"home_team_batting", "away_team_batting">>
PitchingSides == <<"home_team_pitching", "away_team_pitching">>

SideLines(game, side) == IF game = None THEN <<>> ELSE Get(game, side, <<>>)

\* the lines of the two sides of all games of gs, in the order of the input
RECURSIVE InputLines(_, _)
InputLines(gs, sides) ==
    IF gs = <<>> THEN <<>>
    ELSE SideLines(Head(gs), sides[1]) \o SideLines(Head(gs), sides[2])
         \o InputLines(Tail(gs), sides)

InputKeys(gs, sides) ==
    LET lines == InputLines(gs, sides)
    IN  {PlayerKey(lines[k]) : k \in 1..Len(lines)}

CountLines(gs, sides, key) ==
    LET lines == InputLines(gs, sides)
    IN  Cardinality({k \in 1..Len(lines) : PlayerKey(lines[k]) = key})

\* sum of field f over the lines with the key, taken in input order
RECURSIVE SumOfField(_, _, _, _)
SumOfField(lines, key, f, default) ==
    IF lines = <<>> THEN IF f \in FloatFields THEN FZero ELSE 0
    ELSE LET rest == SumOfField(SubSeq(lines, 1, Len(lines) - 1), key, f,
                                default)
             last == lines[Len(lines)]
         IN  IF PlayerKey(last) /= key THEN rest
             ELSE IF f \in FloatFields
                  THEN FAdd(rest, FloatOf(Get(last, f, default)).v)
                  ELSE rest + IntOf(Get(last, f, default)).v

KeysOf(acc) == {acc[k].key : k \in 1..Len(acc)}

(***************************************************************************)
(* C1: after the call, the games field of each player's batting record is  *)
(* the number of batting lines with that player's key on the home and away *)
(* sides of all input games, a key listed twice in a game counting twice;  *)
(* likewise for pitching records and pitching lines.                       *)
(***************************************************************************)
GamesCountIsLineCount ==
    pc = "done" =>
        /\ \A key \in InputKeys(games, BattingSides) :
              /\ HasKey(batting_stats, key)
              /\ batting_list[KeyIndex(batting_stats, key)].games
                   = CountLines(games, BattingSides, key)
        /\ \A key \in InputKeys(games, PitchingSides) :
              /\ HasKey(pitching_stats, key)
              /\ pitching_list[KeyIndex(pitching_stats, key)].games
                   = CountLines(games, PitchingSides, key)

\* a call returned in which one game lists a batter twice and a pitcher
\* has lines on a home and on an away side
ListedTwiceCounted ==
    /\ pc = "done"
    /\ \E g \in 1..Len(games), key \in KeysOf(batting_stats) :
          /\ CountLines(<<games[g]>>, BattingSides, key) = 2
          /\ batting_list[KeyIndex(batting_stats, key)].games >= 2
    /\ \E key \in KeysOf(pitching_stats) :
          /\ pitching_list[KeyIndex(pitching_stats, key)].games = 2
          /\ \E g \in 1..Len(games) :
                LET lines == SideLines(games[g], "home_team_pitching")
                IN  \E k \in 1..Len(lines) : PlayerKey(lines[k]) = key
          /\ \E g \in 1..Len(games) :
                LET lines == SideLines(games[g], "away_team_pitching")
                IN  \E k \in 1..Len(lines) : PlayerKey(lines[k]) = key

(***************************************************************************)
(* C2: after the call, every counting statistic of a player's record is    *)
(* the sum of that field over all lines with the player's key in all input *)
(* games, home and away sides alike (innings_pitched as a sum of floats).  *)
(***************************************************************************)
TotalsAreFieldSums ==
    pc = "done" =>
        /\ \A key \in KeysOf(batting_stats), k \in 1..Len(BattingFields) :
              batting_list[KeyIndex(batting_stats, key)][BattingFields[k]]
                = SumOfField(InputLines(games, BattingSides), key,
                             BattingFields[k], PyInt(0))
        /\ \A key \in KeysOf(pitching_stats), k \in 1..Len(PitchingFields) :
              pitching_list[KeyIndex(pitching_stats, key)][PitchingFields[k]]
                = SumOfField(InputLines(games, PitchingSides), key,
                             PitchingFields[k], PyInt(0))

\* a call returned with a batter and a pitcher whose totals come from
\* several lines
TotalsOverSeveralLines ==
    /\ pc = "done"
    /\ \E k \in 1..Len(batting_list) :
          batting_list[k].games >= 2 /\ batting_list[k].at_bats >= 7
    /\ \E k \in 1..Len(pitching_list) :
          /\ pitching_list[k].games >= 2
          /\ pitching_list[k].strikeouts >= 8
          /\ pitching_list[k].innings_pitched
               = FAdd(InningsValue(6, 1), InningsValue(0, 1))

(***************************************************************************)
(* C3 as stated: a batting record whose cumulative at_bats is 0 has        *)
(* batting_average, on_base_percentage, slugging_percentage and ops all    *)
(* exactly 0.0, whatever its walks.                                        *)
(***************************************************************************)
NoAtBatsAllZero ==
    pc = "done" =>
        \A k \in 1..Len(batting_list) :
            batting_list[k].at_bats = 0 =>
                /\ batting_list[k].batting_average = FZero
                /\ batting_list[k].on_base_percentage = FZero
                /\ batting_list[k].slugging_percentage = FZero
                /\ batting_list[k].ops = FZero

(***************************************************************************)
(* C3 amended: a batting record whose cumulative at_bats is 0 has          *)
(* batting_average and slugging_percentage exactly 0.0; its                *)
(* on_base_percentage and ops are exactly 0.0 when its walks are 0 too,    *)
(* and both are round((hits + walks) / walks, 3) when it has walks.        *)
(***************************************************************************)
NoAtBatsZeroButOnBase ==
    pc = "done" =>
        \A k \in 1..Len(batting_list) :
            LET b == batting_list[k]
                reached == IF b.walks > 0
                           THEN PyRound(IntTrueDiv(b.hits + b.walks,
                                                   b.walks), 3)
                           ELSE FZero
            IN  b.at_bats = 0 =>
                    /\ b.batting_average = FZero
                    /\ b.slugging_percentage = FZero
                    /\ b.on_base_percentage = reached
                    /\ b.ops = reached

\* a call returned with a batter who walked without an at-bat, and one
\* with neither at-bats nor walks
WalkedWithoutAtBat ==
    /\ pc = "done"
    /\ \E k \in 1..Len(batting_list) :
          /\ batting_list[k].at_bats = 0
          /\ batting_list[k].walks > 0
          /\ batting_list[k].on_base_percentage = FFromInt(1)
    /\ \E k \in 1..Len(batting_list) :
          batting_list[k].at_bats = 0 /\ batting_list[k].walks = 0

(***************************************************************************)
(* C4: a pitching record whose cumulative innings_pitched is 0 has era and *)
(* whip exactly 0.0, whatever its earned runs, hits and walks allowed.     *)
(***************************************************************************)
NoInningsZeroRates ==
    pc = "done" =>
        \A k \in 1..Len(pitching_list) :
            ~FPos(pitching_list[k].innings_pitched) =>
                /\ pitching_list[k].era = FZero
                /\ pitching_list[k].whip = FZero

\* a call returned with a pitcher who allowed runs without getting an out
RunsWithoutAnOut ==
    /\ pc = "done"
    /\ \E k \in 1..Len(pitching_list) :
          /\ pitching_list[k].innings_pitched = FZero
          /\ pitching_list[k].earned_runs > 0
          /\ pitching_list[k].hits_allowed + pitching_list[k].walks_allowed > 0

(***************************************************************************)
(* C5 as stated: a malformed numeric field (a string that is no number, or *)
(* null) is read as zero: whenever every entry of the input is a record,   *)
(* the call returns.                                                       *)
(***************************************************************************)
MalformedFieldReadAsZero ==
    (\A g \in 1..Len(games) : games[g] /= None) => pc /= "raised"

\* every field present in a line of gs is a number, or a string holding one
Coercible(line, fields) ==
    \A k \in 1..Len(fields) :
        fields[k] \in DOMAIN line =>
            IF fields[k] \in FloatFields THEN FloatOf(line[fields[k]]).ok
            ELSE IntOf(line[fields[k]]).ok

PresentFieldsCoercible(gs) ==
    /\ LET lines == InputLines(gs, BattingSides)
       IN  \A k \in 1..Len(lines) : Coercible(lines[k], BattingFields)
    /\ LET lines == InputLines(gs, PitchingSides)
       IN  \A k \in 1..Len(lines) : Coercible(lines[k], PitchingFields)

(***************************************************************************)
(* C6 as stated: an entry of the input that is null instead of a record is *)
(* treated as a record without fields: whenever the lines of the input     *)
(* hold no malformed field, the call returns.                              *)
(***************************************************************************)
NullGameReadAsEmpty ==
    PresentFieldsCoercible(games) => pc /= "raised"

\* sum of field f over the lines with the key that have the field
RECURSIVE SumOfPresentField(_, _, _)
SumOfPresentField(lines, key, f) ==
    IF lines = <<>> THEN IF f \in FloatFields THEN FZero ELSE 0
    ELSE LET rest == SumOfPresentField(SubSeq(lines, 1, Len(lines) - 1),
                                       key, f)
             last == lines[Len(lines)]
         IN  IF PlayerKey(last) /= key \/ f \notin DOMAIN last THEN rest
             ELSE IF f \in FloatFields THEN FAdd(rest, FloatOf(last[f]).v)
             ELSE rest + IntOf(last[f]).v

\* the lines of the sides that the games of gs have
RECURSIVE PresentLines(_, _)
PresentLines(gs, sides) ==
    IF gs = <<>> THEN <<>>
    ELSE LET game == Head(gs)
             side(k) == IF sides[k] \in DOMAIN game THEN game[sides[k]]
                        ELSE <<>>
         IN  side(1) \o side(2) \o PresentLines(Tail(gs), sides)

RECURSIVE SumOfGames(_)
SumOfGames(list) ==
    IF list = <<>> THEN 0 ELSE Head(list).games + SumOfGames(Tail(list))

(***************************************************************************)
(* C7: an absent or empty line sequence of a game contributes no lines,    *)
(* an absent numeric field of a line contributes 0 to that field while the *)
(* line still counts one game for its player, and nothing of this raises:  *)
(* a call on records whose present fields are well formed returns, the     *)
(* games counts add up to the number of lines of the sides present, and    *)
(* each total is the sum over the lines that have the field.               *)
(***************************************************************************)
AbsentContributesNothing ==
    /\ (/\ \A g \in 1..Len(games) : games[g] /= None
        /\ PresentFieldsCoercible(games)) => pc /= "raised"
    /\ pc = "done" =>
        /\ SumOfGames(batting_list) = Len(PresentLines(games, BattingSides))
        /\ SumOfGames(pitching_list) = Len(PresentLines(games, PitchingSides))
        /\ \A key \in KeysOf(batting_stats) :
              LET b == batting_list[KeyIndex(batting_stats, key)]
              IN  /\ b.games = CountLines(games, BattingSides, key)
                  /\ \A k \in 1..Len(BattingFields) :
                        b[BattingFields[k]]
                          = SumOfPresentField(PresentLines(games, BattingSides),
                                              key, BattingFields[k])
        /\ \A key \in KeysOf(pitching_stats) :
              LET p == pitching_list[KeyIndex(pitching_stats, key)]
              IN  /\ p.games = CountLines(games, PitchingSides, key)
                  /\ \A k \in 1..Len(PitchingFields) :
                        p[PitchingFields[k]]
                          = SumOfPresentField(PresentLines(games, PitchingSides),
                                              key, PitchingFields[k])

\* a call returned on games of which one lacks a line sequence and one has
\* an empty one, with a batting and a pitching line lacking numeric fields
ReturnedOnAbsentFields ==
    /\ pc = "done"
    /\ \E g \in 1..Len(games) : "home_team_pitching" \notin DOMAIN games[g]
    /\ \E g \in 1..Len(games) :
          /\ "away_team_batting" \in DOMAIN games[g]
          /\ games[g].away_team_batting = <<>>
    /\ LET lines == InputLines(games, BattingSides)
       IN  \E k \in 1..Len(lines) : "hits" \notin DOMAIN lines[k]
    /\ LET lines == InputLines(games, PitchingSides)
       IN  \E k \in 1..Len(lines) : "earned_runs" \notin DOMAIN lines[k]

\* q is p in another order
IsPermutation(p, q) ==
    /\ Len(p) = Len(q)
    /\ \E f \in Permutations(1..Len(p)) : \A k \in 1..Len(p) : q[f[k]] = p[k]

\* a record without its player_name and team
Numbers(stats) ==
    [f \in DOMAIN stats \ {"player_name", "team"} |-> stats[f]]

NumbersByKey(acc, key) == Numbers(acc[KeyIndex(acc, key)].stats)

(***************************************************************************)
(* C8 as stated: a call on a permutation of the games of an earlier call   *)
(* yields, for every player key, the same games count, the same counting   *)
(* totals and the same derived statistics as the earlier call.             *)
(***************************************************************************)
OrderOfGamesIrrelevant ==
    (pc = "done" /\ prev.ok /\ IsPermutation(prev.games, games)) =>
        /\ KeysOf(batting_stats) = KeysOf(prev.batting_stats)
        /\ KeysOf(pitching_stats) = KeysOf(prev.pitching_stats)
        /\ \A key \in KeysOf(batting_stats) :
              NumbersByKey(batting_stats, key)
                = NumbersByKey(prev.batting_stats, key)
        /\ \A key \in KeysOf(pitching_stats) :
              NumbersByKey(pitching_stats, key)
                = NumbersByKey(prev.pitching_stats, key)

(***************************************************************************)
(* C9: the calculator keeps no state between calls: a call on the input of *)
(* the call before it returns the same two lists, and the records a call   *)
(* returns are those of the players of its own input, with the games       *)
(* counts of its own input, whatever an earlier call was given.            *)
(***************************************************************************)
NoStateBetweenCalls ==
    pc = "done" =>
        /\ (prev.ok /\ prev.games = games) =>
              /\ batting_list = prev.batting_list
              /\ pitching_list = prev.pitching_list
        /\ KeysOf(batting_stats) = InputKeys(games, BattingSides)
        /\ KeysOf(pitching_stats) = InputKeys(games, PitchingSides)
        /\ \A key \in KeysOf(batting_stats) :
              batting_list[KeyIndex(batting_stats, key)].games
                = CountLines(games, BattingSides, key)
        /\ \A key \in KeysOf(pitching_stats) :
              pitching_list[KeyIndex(pitching_stats, key)].games
                = CountLines(games, PitchingSides, key)

\* a second call returned, on the same games as the first
SecondCallOnSameGames ==
    /\ pc = "done"
    /\ calls = 2
    /\ prev.ok
    /\ prev.games = games
    /\ Len(games) >= 2
    /\ batting_list /= <<>>
    /\ pitching_list /= <<>>

(***************************************************************************)
(* C10: the call never modifies its input: from its entry on, the list of  *)
(* games is, record for record and line for line, what it was at entry.    *)
(***************************************************************************)
InputNeverModified ==
    pc /= "idle" => games = games_at_call

\* a call returned that read lines of two games
ReturnedOverTwoGames ==
    /\ pc = "done"
    /\ Len(games) >= 2
    /\ \A g \in 1..Len(games) :
          Len(InputLines(<<games[g]>>, BattingSides)) > 0
    /\ Len(batting_list) >= 2
    /\ pitching_list /= <<>>

(***************************************************************************)
(* C11: each returned collection holds exactly one record per distinct     *)
(* player key of the input lines of its kind and none for any other key;   *)
(* an empty sequence of games yields two empty collections.                *)
(***************************************************************************)
OneRecordPerKey ==
    pc = "done" =>
        /\ KeysOf(batting_stats) = InputKeys(games, BattingSides)
        /\ Len(batting_list) = Cardinality(InputKeys(games, BattingSides))
        /\ Len(batting_stats) = Len(batting_list)
        /\ KeysOf(pitching_stats) = InputKeys(games, PitchingSides)
        /\ Len(pitching_list) = Cardinality(InputKeys(games, PitchingSides))
        /\ Len(pitching_stats) = Len(pitching_list)
        /\ games = <<>> => batting_list = <<>> /\ pitching_list = <<>>

\* a call returned with fewer records than lines, of both kinds
FewerRecordsThanLines ==
    /\ pc = "done"
    /\ Len(batting_list) >= 2
    /\ Len(batting_list) < Len(InputLines(games, BattingSides))
    /\ Len(pitching_list) >= 2
    /\ Len(pitching_list) < Len(InputLines(games, PitchingSides))

\* position of the first and of the last line with the key
FirstIndex(lines, key) ==
    CHOOSE k \in 1..Len(lines) :
        /\ PlayerKey(lines[k]) = key
        /\ \A j \in 1..(k - 1) : PlayerKey(lines[j]) /= key

LastIndex(lines, key) ==
    CHOOSE k \in 1..Len(lines) :
        /\ PlayerKey(lines[k]) = key
        /\ \A j \in (k + 1)..Len(lines) : PlayerKey(lines[j]) /= key

\* the records of acc are in the order in which their keys first occur in
\* lines
InFirstSeenOrder(acc, lines) ==
    \A a, b \in 1..Len(acc) :
        a < b <=> FirstIndex(lines, acc[a].key) < FirstIndex(lines, acc[b].key)

(***************************************************************************)
(* C12: the records of each returned collection are in the order in which  *)
(* their keys are first encountered, games taken in input order and, in a  *)
(* game, the home lines before the away lines, each side in line order.    *)
(***************************************************************************)
RecordsInFirstSeenOrder ==
    pc = "done" =>
        /\ InFirstSeenOrder(batting_stats, InputLines(games, BattingSides))
        /\ InFirstSeenOrder(pitching_stats, InputLines(games, PitchingSides))

\* a call returned in which a batter precedes another in the result though
\* his last line comes after the other's last line, and in which a key
\* first seen on an away side has a record
FirstSeenNotLastSeen ==
    /\ pc = "done"
    /\ LET lines == InputLines(games, BattingSides)
       IN  \E a, b \in 1..Len(batting_stats) :
              /\ a < b
              /\ LastIndex(lines, batting_stats[b].key)
                   < LastIndex(lines, batting_stats[a].key)
    /\ \E g \in 1..Len(games), k \in 1..Len(batting_stats) :
          LET away == SideLines(games[g], "away_team_batting")
              before == InputLines(SubSeq(games, 1, g - 1), BattingSides)
                        \o SideLines(games[g], "home_team_batting")
          IN  /\ \E n \in 1..Len(away) :
                    PlayerKey(away[n]) = batting_stats[k].key
              /\ \A n \in 1..Len(before) :
                    PlayerKey(before[n]) /= batting_stats[k].key
    /\ Len(pitching_stats) >= 2

\* the lines of a side with the team name the side is processed under
TeamLines(game, side, teamField) ==
    LET lines == SideLines(game, side)
    IN  [k \in 1..Len(lines) |->
            [line |-> lines[k], team |-> Get(game, teamField, "Unknown")]]

\* the lines of gs with their team names, in the order they are processed
RECURSIVE InputTeamLines(_, _)
InputTeamLines(gs, sides) ==
    IF gs = <<>> THEN <<>>
    ELSE TeamLines(Head(gs), sides[1], "home_team")
         \o TeamLines(Head(gs), sides[2], "away_team")
         \o InputTeamLines(Tail(gs), sides)

\* the record of each key has the name and team of the last line with it
NamedAfterLastLine(acc, list, gs, sides) ==
    LET lines == InputLines(gs, sides)
        tagged == InputTeamLines(gs, sides)
    IN  \A k \in 1..Len(acc) :
            LET last == tagged[LastIndex(lines, acc[k].key)]
            IN  /\ list[k].player_name = Get(last.line, "name", "Unknown")
                /\ list[k].team = last.team

(***************************************************************************)
(* C13: the player_name and team of a record are those of the last         *)
(* processed line with its key: that line's name, and the home_team or     *)
(* away_team of its game according to the side listing it; names and teams *)
(* of earlier lines with the key are overwritten.                          *)
(***************************************************************************)
LastWriteWins ==
    pc = "done" =>
        /\ NamedAfterLastLine(batting_stats, batting_list, games, BattingSides)
        /\ NamedAfterLastLine(pitching_stats, pitching_list, games,
                              PitchingSides)

\* a call returned with a batter whose first and last lines differ in name
\* and team, and a pitcher whose first and last lines differ in team
RenamedPlayers ==
    /\ pc = "done"
    /\ LET lines == InputLines(games, BattingSides)
           tagged == InputTeamLines(games, BattingSides)
       IN  \E k \in 1..Len(batting_stats) :
              LET first == tagged[FirstIndex(lines, batting_stats[k].key)]
              IN  /\ Get(first.line, "name", "Unknown")
                       /= batting_list[k].player_name
                  /\ first.team /= batting_list[k].team
    /\ LET lines == InputLines(games, PitchingSides)
           tagged == InputTeamLines(games, PitchingSides)
       IN  \E k \in 1..Len(pitching_stats) :
              LET first == tagged[FirstIndex(lines, pitching_stats[k].key)]
              IN  first.team /= pitching_list[k].team

\* the key the line is to have: its player_id when present and not empty,
\* else the marker with its name
StatedKey(line) ==
    IF "player_id" \in DOMAIN line /\ line.player_id /= ""
    THEN line.player_id
    ELSE "unknown_" \o Get(line, "name", "unnamed")

StatedKeys(gs, sides) ==
    LET lines == InputLines(gs, sides)
    IN  {StatedKey(lines[k]) : k \in 1..Len(lines)}

(***************************************************************************)
(* C14 as stated: the key of a line is its player_id when present and not  *)
(* empty, and in every other case, an empty player_id included, the fixed  *)
(* marker with the line's name: the returned records are those of these    *)
(* keys, so that lines without an id and of one name share a record.       *)
(***************************************************************************)
KeyIsIdOrName ==
    pc = "done" =>
        /\ KeysOf(batting_stats) = StatedKeys(games, BattingSides)
        /\ KeysOf(pitching_stats) = StatedKeys(games, PitchingSides)

\* the batting average of the lines of one game with the key
GameAverage(game, key) ==
    LET lines == InputLines(<<game>>, BattingSides)
        h == SumOfField(lines, key, "hits", PyInt(0))
        ab == SumOfField(lines, key, "at_bats", PyInt(0))
    IN  IF ab > 0 THEN PyRound(IntTrueDiv(h, ab), 3) ELSE FZero

(***************************************************************************)
(* C15: the batting_average of a player is the total of his hits over all  *)
(* games divided by the total of his at_bats over all games, rounded to 3  *)
(* decimals, when that total of at_bats is positive: it comes from the     *)
(* cumulative totals, not from per-game averages.                          *)
(***************************************************************************)
AverageOfTotals ==
    pc = "done" =>
        \A k \in 1..Len(batting_stats) :
            LET lines == InputLines(games, BattingSides)
                h == SumOfField(lines, batting_stats[k].key, "hits", PyInt(0))
                ab == SumOfField(lines, batting_stats[k].key, "at_bats",
                                 PyInt(0))
            IN  ab > 0 =>
                    batting_list[k].batting_average
                      = PyRound(IntTrueDiv(h, ab), 3)

\* a call returned on two games with a batter in both whose batting_average
\* is not the mean of his averages in each game
NotTheMeanOfGameAverages ==
    /\ pc = "done"
    /\ Len(games) = 2
    /\ \E k \in 1..Len(batting_stats) :
          LET key == batting_stats[k].key
          IN  /\ CountLines(<<games[1]>>, BattingSides, key) > 0
              /\ CountLines(<<games[2]>>, BattingSides, key) > 0
              /\ batting_list[k].at_bats > 0
              /\ batting_list[k].batting_average
                   /= PyRound(FDiv(FAdd(GameAverage(games[1], key),
                                        GameAverage(games[2], key)),
                                   FFromInt(2)), 3)

(***************************************************************************)
(* C16: when the cumulative at_bats are positive, slugging_percentage is   *)
(* total_bases / at_bats rounded to 3 decimals, total_bases being          *)
(* (hits - doubles - triples - home_runs) * 1 + doubles * 2 + triples * 3  *)
(* + home_runs * 4 of the cumulative totals; at_bats 4, hits 2, doubles 1, *)
(* home_runs 1 give total_bases 6 and slugging_percentage 1.5.             *)
(***************************************************************************)
SluggingOfTotalBases ==
    pc = "done" =>
        \A k \in 1..Len(batting_list) :
            LET b == batting_list[k]
                total_bases == (b.hits - b.doubles - b.triples - b.home_runs) * 1
                               + b.doubles * 2 + b.triples * 3
                               + b.home_runs * 4
            IN  /\ b.at_bats > 0 =>
                      b.slugging_percentage
                        = PyRound(IntTrueDiv(total_bases, b.at_bats), 3)
                /\ (/\ b.at_bats = 4
                    /\ b.hits = 2
                    /\ b.doubles = 1
                    /\ b.triples = 0
                    /\ b.home_runs = 1) =>
                      /\ total_bases = 6
                      /\ b.slugging_percentage = IntTrueDiv(3, 2)

\* a call returned with the batter of the example and a batter with a triple
SluggedSixBasesInFour ==
    /\ pc = "done"
    /\ \E k \in 1..Len(batting_list) :
          /\ batting_list[k].at_bats = 4
          /\ batting_list[k].hits = 2
          /\ batting_list[k].doubles = 1
          /\ batting_list[k].triples = 0
          /\ batting_list[k].home_runs = 1
          /\ batting_list[k].slugging_percentage = IntTrueDiv(3, 2)
    /\ \E k \in 1..Len(batting_list) :
          batting_list[k].at_bats > 0 /\ batting_list[k].triples > 0

RoundedOnBase(b) ==
    IF b.at_bats + b.walks > 0
    THEN PyRound(IntTrueDiv(b.hits + b.walks, b.at_bats + b.walks), 3)
    ELSE FZero

RoundedSlugging(b) ==
    IF b.at_bats > 0
    THEN PyRound(IntTrueDiv(b.hits + b.doubles + 2 * b.triples
                            + 3 * b.home_runs, b.at_bats), 3)
    ELSE FZero

(***************************************************************************)
(* C18: ops is the sum of the rounded on_base_percentage and the rounded   *)
(* slugging_percentage, rounded to 3 decimals; it is not computed from the *)
(* unrounded quotients, from whose rounded sum it can differ.              *)
(***************************************************************************)
OpsOfRoundedParts ==
    pc = "done" =>
        \A k \in 1..Len(batting_list) :
            /\ batting_list[k].ops
                 = PyRound(FAdd(RoundedOnBase(batting_list[k]),
                                RoundedSlugging(batting_list[k])), 3)
            /\ batting_list[k].ops
                 = PyRound(FAdd(batting_list[k].on_base_percentage,
                                batting_list[k].slugging_percentage), 3)

\* a call returned with a batter whose ops is not the rounded sum of his
\* unrounded quotients
OpsOffTheUnroundedSum ==
    /\ pc = "done"
    /\ \E k \in 1..Len(batting_list) :
          LET b == batting_list[k]
          IN  /\ b.at_bats > 0
              /\ b.ops /= PyRound(FAdd(IntTrueDiv(b.hits + b.walks,
                                                  b.at_bats + b.walks),
                                       IntTrueDiv(TotalBases(b), b.at_bats)),
                                  3)

(***************************************************************************)
(* C19: when the cumulative innings_pitched are positive, era is           *)
(* earned_runs * 9 / innings_pitched and whip is (hits_allowed +           *)
(* walks_allowed) / innings_pitched of the cumulative totals, each rounded *)
(* to 2 decimals; 3 earned runs give era 4.5 over 6.0 innings and 4.26     *)
(* over 6 1/3 innings.                                                     *)
(***************************************************************************)
RatesOverInnings ==
    /\ pc = "done" =>
        \A k \in 1..Len(pitching_list) :
            LET p == pitching_list[k]
            IN  /\ FPos(p.innings_pitched) =>
                      /\ p.era = PyRound(FDiv(FFromInt(p.earned_runs * 9),
                                              p.innings_pitched), 2)
                      /\ p.whip = PyRound(FDiv(FFromInt(p.hits_allowed
                                                        + p.walks_allowed),
                                               p.innings_pitched), 2)
                /\ (/\ p.earned_runs = 3
                    /\ p.innings_pitched = InningsValue(6, 1)) =>
                      p.era = IntTrueDiv(426, 100)
    /\ PitchingAverages([NewPitchingStats EXCEPT
                            !.earned_runs = 3,
                            !.innings_pitched = FFromInt(6)]).era
         = IntTrueDiv(45, 10)

\* a call returned with a pitcher of 3 earned runs in 6 1/3 innings, rated
\* 4.26
ThreeRunsInSixAndAThird ==
    /\ pc = "done"
    /\ \E k \in 1..Len(pitching_list) :
          /\ pitching_list[k].earned_runs = 3
          /\ pitching_list[k].innings_pitched = InningsValue(6, 1)
          /\ pitching_list[k].era = IntTrueDiv(426, 100)
          /\ FPos(pitching_list[k].whip)

(***************************************************************************)
(* C20: parse_innings reads "<whole>.<outs>" by thirds and not as a        *)
(* decimal fraction: "W.1" gives W + 1/3, "W.2" gives W + 2/3, and "W" or  *)
(* "W.0" gives W, for every whole number W >= 0.                           *)
(***************************************************************************)
OutsAreThirds ==
    (client_pc = "idle" /\ innings /= None /\ innings_str.t = "str") =>
        \A w \in 0..MaxWhole :
            /\ innings_str.v = IntToChars(w) \o <<".", "1">> =>
                  /\ innings = PyFloat(FAdd(FFromInt(w), IntTrueDiv(1, 3)))
                  /\ innings /= PyFloat(FAdd(FFromInt(w), IntTrueDiv(1, 10)))
            /\ innings_str.v = IntToChars(w) \o <<".", "2">> =>
                  /\ innings = PyFloat(FAdd(FFromInt(w), IntTrueDiv(2, 3)))
                  /\ innings /= PyFloat(FAdd(FFromInt(w), IntTrueDiv(2, 10)))
            /\ innings_str.v = IntToChars(w) \o <<".", "0">> =>
                  innings = PyFloat(FFromInt(w))
            /\ innings_str.v = IntToChars(w) =>
                  innings = PyFloat(FFromInt(w))

\* parse_innings returned on "6.1"
SixAndAThirdParsed ==
    /\ client_pc = "idle"
    /\ innings_str.t = "str"
    /\ innings_str.v = <<"6", ".", "1">>
    /\ innings = PyFloat(InningsValue(6, 1))

(***************************************************************************)
(* C21: parse_innings returns 0.0 for every missing value (None, the empty *)
(* string, the 0 of an absent 'ip') and for every string that is no number:*)
(* one with a character that is neither a digit nor '.', in its whole part *)
(* or in its fraction, or one with more than one '.'.  An int 0 counts as  *)
(* 0.0, to which it is equal.                                              *)
(***************************************************************************)
NotANumber(cs) ==
    \/ \E k \in 1..Len(cs) : ~IsDigit(cs[k]) /\ cs[k] /= "."
    \/ Cardinality(Dots(cs)) > 1

NonNumericParsesToZero ==
    (client_pc = "idle" /\ innings /= None) =>
        ((\/ Falsy(innings_str)
          \/ innings_str.t = "str" /\ NotANumber(innings_str.v))
         => \/ innings.t = "float" /\ innings.v = FZero
            \/ innings.t = "int" /\ innings.v = 0)

(***************************************************************************)
(* C23: a fraction that is a digit string other than "1" and "2" is read   *)
(* as a count of thirds, never as a decimal fraction: parse_innings        *)
(* returns whole + int(fraction)/3, so "W.0" gives W, "W.3" gives W + 1    *)
(* and "W.10" gives W + 10/3, for every whole number W >= 0.               *)
(***************************************************************************)
OtherDigitsAreThirds ==
    (client_pc = "idle" /\ innings /= None /\ innings_str.t = "str") =>
        \A w \in 0..MaxWhole :
            /\ innings_str.v = IntToChars(w) \o <<".", "0">> =>
                  innings.t = "float" /\ innings.v = FFromInt(w)
            /\ innings_str.v = IntToChars(w) \o <<".", "3">> =>
                  /\ innings.t = "float"
                  /\ innings.v = FFromInt(w + 1)
                  /\ innings.v /= FAdd(FFromInt(w), IntTrueDiv(3, 10))
            /\ innings_str.v = IntToChars(w) \o <<".", "1", "0">> =>
                  /\ innings.t = "float"
                  /\ innings.v = FAdd(FFromInt(w), IntTrueDiv(10, 3))
                  /\ innings.v /= FAdd(FFromInt(w), IntTrueDiv(1, 10))

\* parse_innings returned 7.0 on "6.3"
SixPointThreeIsSeven ==
    /\ client_pc = "idle"
    /\ innings_str.t = "str"
    /\ innings_str.v = <<"6", ".", "3">>
    /\ innings = PyFloat(FFromInt(7))

(***************************************************************************)
(* C24: every pitching line _extract_pitching_stats produces has wins,     *)
(* losses and saves each 0 or 1 and at most one of them 1, whatever the    *)
(* annotation holds, several markers included.                             *)
(***************************************************************************)
DecisionsExclusive ==
    (client_pc = "idle" /\ pitching_data /= None) =>
        /\ pitching_data.wins \in {0, 1}
        /\ pitching_data.losses \in {0, 1}
        /\ pitching_data.saves \in {0, 1}
        /\ pitching_data.wins + pitching_data.losses + pitching_data.saves
              <= 1

\* a line was produced from an annotation holding two different markers
TwoMarkersOneDecision ==
    /\ client_pc = "idle"
    /\ pitching_data /= None
    /\ Contains(Get(player_stats, "namefield", PyStr(<<>>)).v, LossMarker)
    /\ Contains(Get(player_stats, "namefield", PyStr(<<>>)).v, SaveMarker)
    /\ pitching_data.losses = 1
    /\ pitching_data.saves = 0

(***************************************************************************)
(* C25: the stored list never holds two games of the same (date,           *)
(* home_team_id, away_team_id), after any sequence of add_game,            *)
(* remove_game and clear_all_data from the empty store; an add_game of a   *)
(* game whose triple is stored returns False and appends nothing.          *)
(***************************************************************************)
SameValue(a, b) == a.t = b.t /\ (a.t = "NoneType" \/ a.v = b.v)

SameTriple(g, h) ==
    \A f \in {"date", "home_team_id", "away_team_id"} :
        SameValue(Get(g, f, None), Get(h, f, None))

\* the same games in the same order
SameGames(p, q) ==
    /\ Len(p) = Len(q)
    /\ \A k \in 1..Len(p) : p[k].game_id = q[k].game_id /\ p[k] = q[k]

NoDuplicateGames ==
    /\ \A a, b \in 1..Len(data.games) :
          a /= b => ~SameTriple(data.games[a], data.games[b])
    /\ (/\ store_op.name = "add_game"
        /\ \E k \in 1..Len(store_op.before) :
              SameTriple(store_op.before[k], store_op.game))
       => /\ store_op.result = FALSE
          /\ SameGames(data.games, store_op.before)

\* the second game of a doubleheader was refused while the first is stored
DoubleheaderRefused ==
    /\ store_op.name = "add_game"
    /\ store_op.game.game_id = 2
    /\ \E k \in 1..Len(store_op.before) : store_op.before[k].game_id = 1
    /\ store_op.result = FALSE
    /\ Len(data.games) = Len(store_op.before)

(***************************************************************************)
(* C26: whenever add_game returns False, for a duplicate or for a save     *)
(* that failed, the list get_all_games returns is as before the call; the  *)
(* game supplied is in the list only if the call returned True.            *)
(***************************************************************************)
RefusedAddChangesNothing ==
    store_op.name = "add_game" =>
        /\ store_op.result = FALSE => SameGames(data.games, store_op.before)
        /\ Len(data.games) > Len(store_op.before) => store_op.result = TRUE

(***************************************************************************)
(* C27: remove_game(index) with index outside 0..len-1, negative indices   *)
(* included, returns False and leaves the stored list as it was; with a    *)
(* valid index it removes exactly the game at that position and keeps the  *)
(* others in their order; an add_game of the removed game that follows is  *)
(* accepted again: the game is appended, and True is returned when the     *)
(* file is written.                                                        *)
(***************************************************************************)
ValidRemoval(op) ==
    op.name = "remove_game" /\ 0 <= op.index /\ op.index < Len(op.before)

OthersKept(acc, after, keys) ==
    /\ Len(after) >= Len(acc)
    /\ \A k \in 1..Len(acc) :
          acc[k].key \notin keys => after[k] = acc[k]

RecordsOf(acc, key) == Cardinality({k \in 1..Len(acc) : acc[k].key = key})

BattingAndPitchingIndependent ==
    /\ [][(pc = "batting" /\ i <= Len(games)) =>
             /\ pitching_stats' = pitching_stats
             /\ OthersKept(batting_stats, batting_stats',
                           InputKeys(<<games[i]>>, BattingSides))]_vars
    /\ [][pc = "pitching" =>
             /\ batting_stats' = batting_stats
             /\ OthersKept(pitching_stats, pitching_stats',
                           InputKeys(<<games[i]>>, PitchingSides))]_vars
    /\ [](pc = "done" =>
            \A key \in InputKeys(games, BattingSides)
                          \cap InputKeys(games, PitchingSides) :
                /\ RecordsOf(batting_stats, key) = 1
                /\ RecordsOf(pitching_stats, key) = 1
                /\ batting_list[KeyIndex(batting_stats, key)].games
                      = CountLines(games, BattingSides, key)
                /\ pitching_list[KeyIndex(pitching_stats, key)].games
                      = CountLines(games, PitchingSides, key))

\* a call returned for a player with more batting lines than pitching
\* lines, next to a player with batting lines only
BatsMoreThanPitches ==
    /\ pc = "done"
    /\ Len(games) = 2
    /\ \E key \in KeysOf(batting_stats) \cap KeysOf(pitching_stats) :
          /\ batting_list[KeyIndex(batting_stats, key)].games = 2
          /\ pitching_list[KeyIndex(pitching_stats, key)].games = 1
    /\ KeysOf(batting_stats) \ KeysOf(pitching_stats) /= {}

(***************************************************************************)
(* C29: get_teams caches only a completed fetch.  Once a list is cached,   *)
(* an empty one included, every call returns it and sends no request; a    *)
(* fetch that raises returns an empty list and leaves the cache unset, and *)
(* the next call sends a request again; a fetch that completes caches the  *)
(* list it returns.                                                        *)
(***************************************************************************)
CachesOnlyCompletedFetch ==
    /\ [][teams_cache.t = "list" =>
             /\ teams_cache' = teams_cache
             /\ fetches' = fetches
             /\ ~teams_call'.fetched
             /\ teams_call'.returned = teams_cache.v]_vars
    /\ [][teams_cache.t = "NoneType" =>
             /\ teams_call'.fetched
             /\ fetches' = fetches + 1]_vars
    /\ [](teams_call.raised =>
             /\ teams_call.returned = <<>>
             /\ teams_cache.t = "NoneType")
    /\ [](teams_call.fetched /\ ~teams_call.raised =>
             /\ teams_cache.t = "list"
             /\ teams_cache.v = teams_call.returned)

\* after a fetch that raised and one that gave no team, the empty list was
\* returned from the cache
EmptyListFromCache ==
    /\ fetches = 2
    /\ teams_cache.t = "list"
    /\ teams_cache.v = <<>>
    /\ ~teams_call.fetched
    /\ teams_call.cache_before.t = "list"
    /\ teams_call.returned = <<>>

(***************************************************************************)
(* C30: in the result of get_team_summary every game adds 1 to games_seen  *)
(* of its home team and 1 to games_seen of its away team, a game of        *)
(* unequal scores adds one win to the team with the higher score and one   *)
(* loss to the other, and a tie adds neither; so for every team wins +     *)
(* losses <= games_seen, and the wins of all teams total the losses of all *)
(* teams.                                                                  *)
(***************************************************************************)
HomeOf(game) == Get(game, "home_team", "Unknown")
AwayOf(game) == Get(game, "away_team", "Unknown")
HomeScore(game) == IntOf(Get(game, "home_score", PyInt(0))).v
AwayScore(game) == IntOf(Get(game, "away_score", PyInt(0))).v

RECURSIVE TotalOf(_, _)
TotalOf(records, field) ==
    IF records = <<>> THEN 0
    ELSE Head(records).stats[field] + TotalOf(Tail(records), field)

TeamSummaryCounts ==
    (team_summary /= None /\ team_summary.ok) =>
        LET records == team_summary.records
            G == 1..Len(games)
        IN  /\ {records[k].key : k \in 1..Len(records)}
                  = {HomeOf(games[g]) : g \in G}
                    \cup {AwayOf(games[g]) : g \in G}
            /\ \A k \in 1..Len(records) :
                  LET team == records[k].key
                      stats == records[k].stats
                  IN  /\ stats.games_seen
                            = Cardinality({g \in G : HomeOf(games[g]) = team})
                              + Cardinality({g \in G :
                                               AwayOf(games[g]) = team})
                      /\ stats.wins
                            = Cardinality({g \in G :
                                  /\ HomeOf(games[g]) = team
                                  /\ HomeScore(games[g]) > AwayScore(games[g])})
                              + Cardinality({g \in G :
                                  /\ AwayOf(games[g]) = team
                                  /\ AwayScore(games[g]) > HomeScore(games[g])})
                      /\ stats.losses
                            = Cardinality({g \in G :
                                  /\ HomeOf(games[g]) = team
                                  /\ HomeScore(games[g]) < AwayScore(games[g])})
                              + Cardinality({g \in G :
                                  /\ AwayOf(games[g]) = team
                                  /\ AwayScore(games[g]) < HomeScore(games[g])})
                      /\ stats.wins + stats.losses <= stats.games_seen
            /\ TotalOf(records, "wins") = TotalOf(records, "losses")

\* a summary of a tie and of a game won by the home team of the tie
TieAndWinSummed ==
    /\ team_summary /= None
    /\ team_summary.ok
    /\ Len(games) = 2
    /\ HomeScore(games[1]) = AwayScore(games[1])
    /\ HomeScore(games[2]) < AwayScore(games[2])
    /\ HomeOf(games[1]) = AwayOf(games[2])
    /\ \E k \in 1..Len(team_summary.records) :
          /\ team_summary.records[k].key = HomeOf(games[1])
          /\ team_summary.records[k].stats
                = [wins |-> 1, losses |-> 0, games_seen |-> 2]

(***************************************************************************)
(* C22: two calls of calculate_aggregate_stats whose steps interleave in   *)
(* any way, over the same or over different games, each return what the    *)
(* call returns when it runs alone on its games; the games are left as     *)
(* they were given.                                                        *)
(***************************************************************************)
\* the accumulators of a call running alone on gs, after its loop
RECURSIVE AloneFrom(_, _, _, _)
AloneFrom(gs, k, batting, pitching) ==
    IF k > Len(gs) THEN [batting |-> batting, pitching |-> pitching]
    ELSE AloneFrom(gs, k + 1,
                   ProcessGameBattingStats(gs[k], batting).acc,
                   ProcessGamePitchingStats(gs[k], pitching).acc)

\* the two lists a call returns when it runs alone, for every input
AloneResults ==
    [gs \in ConcurrentInputs |->
        CHOOSE out \in
            {[batting_list |-> CalculateBattingAverages(acc.batting),
              pitching_list |-> CalculatePitchingAverages(acc.pitching)] :
                acc \in {AloneFrom(gs, 1, <<>>, <<>>)}} : TRUE]

InterleavedAsAlone ==
    \A c \in 1..Len(frames) :
        /\ frames[c].games \in ConcurrentInputs
        /\ frames[c].pc \in {"batting", "pitching", "pitching_averages",
                             "done"}
        /\ frames[c].pc = "done" =>
              /\ frames[c].batting_list
                    = AloneResults[frames[c].games].batting_list
              /\ frames[c].pitching_list
                    = AloneResults[frames[c].games].pitching_list

\* both calls returned, the second having begun while the first was in its
\* loop; over the same two games, and players were found
BothReturnedOverSameGames ==
    /\ Len(frames) = 2
    /\ frames[1].pc = "done"
    /\ frames[2].pc = "done"
    /\ frames[1].games = frames[2].games
    /\ Len(frames[1].games) = 2
    /\ frames[1].batting_list /= <<>>
    /\ frames[2].pitching_list /= <<>>

====
